---- MODULE Spec2Model ----
(***************************************************************************)
(* SMBOverSocksBrowser: the browser worker (BrowserWorker), its parallel   *)
(* cache build and search, and the parts of the main window (SMBBrowserApp)*)
(* that drive it; scanner_process.py, the two-stage subnet scanner; and    *)
(* the scanner tab, which runs the scanner as a QProcess and reads its     *)
(* STATUS:/RESULT: lines.                                                  *)
(* Strings are sequences of one-character strings, so that joining, base   *)
(* names, case folding and name suffixes are computed, not assumed.        *)
(***************************************************************************)
EXTENDS Integers, Sequences, FiniteSets, TLC

(* ---- bounds of the model ---- *)
MaxConn == 2
MaxSearch == 2
MaxPreview == 1
MaxBrowse == 1
MaxFail == 1
MaxExtra == 1

(* ---- program constants ---- *)
max_workers == 20

Workers == 1 .. MaxConn

(* ---- strings ---- *)
Root == <<"/">>

Lower(c) ==
  CASE c = "F" -> "f"
    [] c = "B" -> "b"
    [] c = "Z" -> "z"
    [] OTHER -> c

LowerStr(s) == [i \in 1 .. Len(s) |-> Lower(s[i])]

ReplaceBackslash(s) == [i \in 1 .. Len(s) |-> IF s[i] = "\\" THEN "/" ELSE s[i]]

\* os.path.join(path, filename).replace('\\', '/')
JoinPath(path, filename) ==
  ReplaceBackslash(
    IF Len(filename) > 0 /\ filename[1] = "/" THEN filename
    ELSE IF Len(path) = 0 \/ path[Len(path)] = "/" THEN path \o filename
    ELSE path \o <<"/">> \o filename)

\* str.rfind('/') + 1
RFindSlash(p) ==
  IF \E i \in 1 .. Len(p) : p[i] = "/"
  THEN CHOOSE i \in 1 .. Len(p) : p[i] = "/" /\ \A j \in (i + 1) .. Len(p) : p[j] # "/"
  ELSE 0

\* os.path.basename(path)
Basename(p) == SubSeq(p, RFindSlash(p) + 1, Len(p))

\* sub in s
Contains(sub, s) ==
  \E i \in 0 .. (Len(s) - Len(sub)) : SubSeq(s, i + 1, i + Len(sub)) = sub

(* ---- the remote shares ---- *)
Entry(name, isDir, size) == [filename |-> name, isDirectory |-> isDir, file_size |-> size]

Dot == Entry(<<".">>, TRUE, 0)
DotDot == Entry(<<".", ".">>, TRUE, 0)

\* a bug: the entries "." and ".." are taken for subdirectories
IsDotEntryNever(item) == FALSE

\* the wide share: more directories at its root than the listing pool has threads
WideShare == 4
WideWidth == max_workers + MaxExtra
WideName(i) == <<"d", ToString(i)>>

\* share 1: f1 at /, b/f2, b/c/f3, d/F4   share 2: f1 at /, b/ (empty)   share 3: b/f2, d/F4
\* share 4: WideWidth empty directories at /
ShareTree(s) ==
  IF s = 1 THEN
    (<<"/">> :> <<Dot, DotDot, Entry(<<"f", "1">>, FALSE, 11), Entry(<<"b">>, TRUE, 0),
                  Entry(<<"d">>, TRUE, 0)>>)
    @@ (<<"/", "b">> :> <<Dot, DotDot, Entry(<<"c">>, TRUE, 0), Entry(<<"f", "2">>, FALSE, 22)>>)
    @@ (<<"/", "d">> :> <<Dot, DotDot, Entry(<<"F", "4">>, FALSE, 44)>>)
    @@ (<<"/", "b", "/", "c">> :> <<Dot, DotDot, Entry(<<"f", "3">>, FALSE, 33)>>)
  ELSE IF s = 2 THEN
    (<<"/">> :> <<Dot, DotDot, Entry(<<"b">>, TRUE, 0), Entry(<<"f", "1">>, FALSE, 11)>>)
    @@ (<<"/", "b">> :> <<Dot, DotDot>>)
  ELSE IF s = 3 THEN
    (<<"/">> :> <<Dot, DotDot, Entry(<<"b">>, TRUE, 0), Entry(<<"d">>, TRUE, 0)>>)
    @@ (<<"/", "b">> :> <<Dot, DotDot, Entry(<<"f", "2">>, FALSE, 22)>>)
    @@ (<<"/", "d">> :> <<Dot, DotDot, Entry(<<"F", "4">>, FALSE, 44)>>)
  ELSE
    (<<"/">> :> (<<Dot, DotDot>> \o [i \in 1 .. WideWidth |-> Entry(WideName(i), TRUE, 0)]))
    @@ [p \in {<<"/">> \o WideName(i) : i \in 1 .. WideWidth} |-> <<Dot, DotDot>>]

Shares == {1, 2, 3}
Keywords == {<<"F", "2">>, <<"f">>, <<"b">>}
ProxyConfigs == {[use_proxy |-> FALSE, proxy_port |-> 0], [use_proxy |-> TRUE, proxy_port |-> 1337]}


(* ---- BrowserWorker._fetch_path_contents: the value a listing task returns ---- *)
IsDotEntry(item) == item.filename \in {<<".">>, <<".", ".">>}

\* a bug: the isDirectory test is lost, directories are recorded as files too
FetchLoopNoDirTest(path, listing) ==
  LET kept == SelectSeq(listing, LAMBDA item : ~IsDotEntry(item))
      dirs == SelectSeq(kept, LAMBDA item : item.isDirectory)
  IN  [files |-> [i \in 1 .. Len(kept) |->
                    <<JoinPath(path, kept[i].filename), kept[i].file_size>>],
       subdirs |-> [i \in 1 .. Len(dirs) |-> JoinPath(path, dirs[i].filename)]]

FetchLoop(path, listing) ==
  LET kept == SelectSeq(listing, LAMBDA item : ~IsDotEntry(item))
      dirs == SelectSeq(kept, LAMBDA item : item.isDirectory)
      regs == SelectSeq(kept, LAMBDA item : ~item.isDirectory)
  IN  [files |-> [i \in 1 .. Len(regs) |->
                    <<JoinPath(path, regs[i].filename), regs[i].file_size>>],
       subdirs |-> [i \in 1 .. Len(dirs) |-> JoinPath(path, dirs[i].filename)]]

\* a bug: the keyword is looked for in the whole path, not in the base name
SearchCacheFullPath(cache, keyword) ==
  SelectSeq(cache, LAMBDA rec : Contains(LowerStr(keyword), LowerStr(rec[1])))

\* a bug: the keyword is not lowered before the comparison
SearchCacheKeywordCase(cache, keyword) ==
  SelectSeq(cache, LAMBDA rec : Contains(keyword, LowerStr(Basename(rec[1]))))

\* the search expression of do_search (line 572)
SearchCache(cache, keyword) ==
  SelectSeq(cache, LAMBDA rec : Contains(LowerStr(keyword), LowerStr(Basename(rec[1]))))

(* ---- state ---- *)
VARIABLES
  share,            \* the share every connection of this run browses
  failPaths,        \* directories whose listing task raises
  auto_index,       \* SMBBrowserApp.config['auto_index']
  default_proxy,    \* socks default proxy of the GUI process
  \* BrowserWorker objects, by creation number
  config, smb_connection, is_running, is_cached, is_caching, file_path_cache,
  \* the worker's QThread: where it is, its queued slot calls, quit()
  wpc, queue, quit_req, cur,
  \* _build_cache_parallel
  bpc, dirs_to_scan, next_level_dirs, futures, build_exc,
  \* SMBBrowserApp
  browser_worker, gpc, connect_enabled, disconnect_enabled, search_enabled, inbox,
  \* bookkeeping of what happened
  nconn, nsearch, npreview, nbrowse,
  walks, list_count, levels, submit_count, stop_phase, stop_quiet, stop_levels,
  emitted, misrouted, sess_ops,
  \* scanner_process.py, a process of its own: its arguments and the hosts of the subnet
  args, subnet_valid, hosts_to_scan, profile,
  \* main(): where it is, the futures of its two pools, its locals, its standard output
  spc, probe_futures, open_hosts, enum_futures, processed_count, stdout,
  \* bookkeeping of what the scanner did to the hosts
  probe_count, enum_count, smb_calls, temp_dirs,
  \* SMBBrowserApp, scanner tab: the QProcess, its exit as Qt sees it, the part of the
  \* scanner's output already read, the line buffer, the results view, the two
  \* buttons and the status bar
  scanner_process, exit_status, read_pos, scanner_buffer, scan_model,
  start_scan_enabled, cancel_scan_enabled, status_bar, nscan,
  \* a byte stream arriving in chunks, and what the handler made of it
  stream, delivered, shown,
  \* one call of browse_path: the listing the server returns and the returned list
  browse_connected, listing, browse_pc, browse_results

envvars == <<share, failPaths, auto_index>>
objvars == <<config, smb_connection, is_running, is_cached, is_caching, file_path_cache>>
thrvars == <<wpc, queue, quit_req, cur>>
bldvars == <<bpc, dirs_to_scan, next_level_dirs, futures, build_exc>>
guivars == <<browser_worker, gpc, connect_enabled, disconnect_enabled, search_enabled, inbox>>
cntvars == <<nconn, nsearch, npreview, nbrowse>>
hisvars == <<walks, list_count, levels, submit_count, stop_phase, stop_quiet, stop_levels,
             emitted, misrouted, sess_ops>>
appvars == <<envvars, default_proxy, objvars, thrvars, bldvars, guivars, cntvars, hisvars>>
scanvars == <<args, subnet_valid, hosts_to_scan, profile, spc, probe_futures, open_hosts,
              enum_futures, processed_count, stdout, probe_count, enum_count, smb_calls,
              temp_dirs>>
tabvars == <<scanner_process, exit_status, read_pos, scanner_buffer, scan_model,
             start_scan_enabled, cancel_scan_enabled, status_bar, nscan, stream, delivered,
             shown>>
brwvars == <<browse_connected, listing, browse_pc, browse_results>>
\* what the actions of the browser leave alone, and what those of the scanner process do
offbrowser == <<scanvars, tabvars, brwvars>>
offscanner == <<appvars, tabvars, brwvars>>
vars == <<appvars, scanvars, tabvars, brwvars>>

NoProxy == [use_proxy |-> FALSE, proxy_port |-> 0]
EmptyCount == [p \in {} |-> 0]

\* no connection has been made yet; the workers are as __init__ makes them
InitWorkers ==
  /\ default_proxy = NoProxy
  /\ config = [w \in Workers |-> NoProxy]
  /\ smb_connection = [w \in Workers |-> "none"]
  /\ is_running = [w \in Workers |-> TRUE]
  /\ is_cached = [w \in Workers |-> FALSE]
  /\ is_caching = [w \in Workers |-> FALSE]
  /\ file_path_cache = [w \in Workers |-> <<>>]
  /\ wpc = [w \in Workers |-> "unborn"]
  /\ queue = [w \in Workers |-> <<>>]
  /\ quit_req = [w \in Workers |-> FALSE]
  /\ cur = [w \in Workers |-> <<>>]
  /\ bpc = [w \in Workers |-> "none"]
  /\ dirs_to_scan = [w \in Workers |-> <<>>]
  /\ next_level_dirs = [w \in Workers |-> <<>>]
  /\ futures = [w \in Workers |-> <<>>]
  /\ build_exc = [w \in Workers |-> FALSE]
  /\ browser_worker = 0
  /\ gpc = "idle"
  /\ connect_enabled = TRUE
  /\ disconnect_enabled = FALSE
  /\ search_enabled = FALSE
  /\ inbox = <<>>
  /\ nconn = 0
  /\ nsearch = 0
  /\ npreview = 0
  /\ nbrowse = 0
  /\ walks = [w \in Workers |-> 0]
  /\ list_count = [w \in Workers |-> EmptyCount]
  /\ levels = [w \in Workers |-> 0]
  /\ submit_count = [w \in Workers |-> EmptyCount]
  /\ stop_phase = [w \in Workers |-> "none"]
  /\ stop_quiet = [w \in Workers |-> FALSE]
  /\ stop_levels = [w \in Workers |-> 0]
  /\ emitted = [w \in Workers |-> <<>>]
  /\ misrouted = FALSE
  /\ sess_ops = [w \in Workers |-> {}]

InitBrowser ==
  /\ share \in Shares
  /\ failPaths \in {F \in SUBSET (DOMAIN ShareTree(share)) : Cardinality(F) <= MaxFail}
  /\ auto_index \in BOOLEAN
  /\ InitWorkers

\* no scanner process has been started
ScanNotStarted ==
  /\ args = [no_proxy |-> TRUE, proxy_port |-> 0, quick_scan |-> FALSE]
  /\ subnet_valid = TRUE
  /\ hosts_to_scan = <<>>
  /\ profile = <<>>
  /\ spc = "none"
  /\ probe_futures = <<>>
  /\ open_hosts = <<>>
  /\ enum_futures = <<>>
  /\ processed_count = 0
  /\ stdout = <<>>
  /\ probe_count = <<>>
  /\ enum_count = <<>>
  /\ smb_calls = {}
  /\ temp_dirs = {}

\* the scanner tab after __init__ (scanner_process is None, line 667), and no call of
\* browse_path under way
TabIdle ==
  /\ scanner_process = "None"
  /\ exit_status = "NotRunning"
  /\ read_pos = 0
  /\ scanner_buffer = ""
  /\ scan_model = <<>>
  /\ start_scan_enabled = TRUE
  /\ cancel_scan_enabled = FALSE
  /\ status_bar = "Status: Disconnected"
  /\ nscan = 0
  /\ stream = ""
  /\ delivered = 0
  /\ shown = <<>>

NoBrowseCall ==
  browse_connected = FALSE /\ listing = <<>> /\ browse_pc = "idle" /\ browse_results = <<>>

Init == InitBrowser /\ ScanNotStarted /\ TabIdle /\ NoBrowseCall

ProxyOf(cfg) == IF cfg.use_proxy THEN cfg ELSE NoProxy


Emit(sig) == inbox' = Append(inbox, sig)

(* ---- BrowserWorker.run_browser, run when the worker's thread starts ---- *)
RunBrowserStart(w) ==
  /\ wpc[w] = "run_browser"
  /\ IF ~is_running[w]
     THEN /\ wpc' = [wpc EXCEPT ![w] = "loop"]
          /\ UNCHANGED <<default_proxy, smb_connection>>
     ELSE /\ default_proxy' = ProxyOf(config[w])
          /\ smb_connection' = [smb_connection EXCEPT ![w] = "new"]
          /\ wpc' = [wpc EXCEPT ![w] = "run_connect"]
  /\ UNCHANGED <<offbrowser, envvars, config, is_running, is_cached, is_caching, file_path_cache,
                 queue, quit_req, cur, bldvars, guivars, cntvars, hisvars>>

\* smb_connection.connect(...): the socket is made with the default proxy of this moment
RunBrowserConnect(w) ==
  /\ wpc[w] = "run_connect"
  /\ misrouted' = (misrouted \/ default_proxy # ProxyOf(config[w]))
  /\ \/ /\ smb_connection' = [smb_connection EXCEPT ![w] = "open"]
        /\ sess_ops' = [sess_ops EXCEPT ![w] = @ \cup {"worker"}]
        /\ wpc' = [wpc EXCEPT ![w] = "run_browse"]
        /\ UNCHANGED inbox
     \/ /\ wpc' = [wpc EXCEPT ![w] = "loop"]
        /\ IF is_running[w] THEN Emit([sig |-> "connection_failed", w |-> w])
           ELSE UNCHANGED inbox
        /\ UNCHANGED <<smb_connection, sess_ops>>
  /\ UNCHANGED <<offbrowser, envvars, default_proxy, config, is_running, is_cached, is_caching,
                 file_path_cache, queue, quit_req, cur, bldvars, browser_worker, gpc,
                 connect_enabled, disconnect_enabled, search_enabled, cntvars, walks,
                 list_count, levels, submit_count, stop_phase, stop_quiet, stop_levels,
                 emitted>>

\* self.connection_success.emit(self.browse_path("/")), on the worker's thread
RunBrowserBrowse(w) ==
  /\ wpc[w] = "run_browse"
  /\ sess_ops' = [sess_ops EXCEPT ![w] = @ \ {"worker"}]
  /\ wpc' = [wpc EXCEPT ![w] = "loop"]
  /\ \/ Emit([sig |-> "connection_success", w |-> w])
     \/ IF is_running[w] THEN Emit([sig |-> "connection_failed", w |-> w])
        ELSE UNCHANGED inbox
  /\ UNCHANGED <<offbrowser, envvars, default_proxy, objvars, queue, quit_req, cur, bldvars,
                 browser_worker, gpc, connect_enabled, disconnect_enabled, search_enabled,
                 cntvars, walks, list_count, levels, submit_count, stop_phase, stop_quiet,
                 stop_levels, emitted, misrouted>>

(* ---- the guards of the two build triggers ---- *)
\* line 538: the condition under which start_background_caching goes on
SbcGuard(conn, cached, caching, running) ==
  ~(conn = "none" \/ cached \/ caching \/ ~running)

\* a bug: do_search builds whether or not the cache is there
NeedsBuildAlways(cached) == TRUE

\* line 562: do_search builds first
NeedsBuild(cached) == ~cached

EnterBuild(w, slot) ==
  /\ is_caching' = [is_caching EXCEPT ![w] = TRUE]
  /\ file_path_cache' = [file_path_cache EXCEPT ![w] = <<>>]
  /\ wpc' = [wpc EXCEPT ![w] = slot.op]
  /\ cur' = [cur EXCEPT ![w] = slot]
  /\ bpc' = [bpc EXCEPT ![w] = "while"]
  /\ dirs_to_scan' = [dirs_to_scan EXCEPT ![w] = <<Root>>]
  /\ next_level_dirs' = [next_level_dirs EXCEPT ![w] = <<>>]
  /\ futures' = [futures EXCEPT ![w] = <<>>]
  /\ build_exc' = [build_exc EXCEPT ![w] = FALSE]
  /\ walks' = [walks EXCEPT ![w] = @ + 1]

\* a bug: the answer of a search is emitted twice
AnswerTwice(w, slot, kind, results) ==
  LET ans == [kw |-> slot.kw, during |-> slot.during, kind |-> kind, results |-> results]
      sig == [sig |-> "search_finished", w |-> w, results |-> results]
  IN  /\ emitted' = [emitted EXCEPT ![w] = @ \o <<ans, ans>>]
      /\ inbox' = inbox \o <<sig, sig>>

Answer(w, slot, kind, results) ==
  /\ emitted' = [emitted EXCEPT ![w] = Append(@, [kw |-> slot.kw, during |-> slot.during,
                                                 kind |-> kind, results |-> results])]
  /\ Emit([sig |-> "search_finished", w |-> w, results |-> results])

(* ---- the worker thread's event loop takes the next queued slot call ---- *)
\* start_background_caching, lines 536-544
SlotStartCaching(w) ==
  /\ wpc[w] = "loop" /\ queue[w] # <<>> /\ Head(queue[w]).op = "start_background_caching"
  /\ queue' = [queue EXCEPT ![w] = Tail(@)]
  /\ IF SbcGuard(smb_connection[w], is_cached[w], is_caching[w], is_running[w])
     THEN EnterBuild(w, Head(queue[w]))
     ELSE UNCHANGED <<is_caching, file_path_cache, wpc, cur, bldvars, walks>>
  /\ UNCHANGED <<offbrowser, envvars, default_proxy, config, smb_connection, is_running,
                 is_cached, quit_req, guivars, cntvars, list_count, levels, submit_count,
                 stop_phase, stop_quiet, stop_levels, emitted, misrouted, sess_ops>>

\* do_search, lines 553-573 up to the call of _build_cache_parallel
SlotSearch(w) ==
  /\ wpc[w] = "loop" /\ queue[w] # <<>> /\ Head(queue[w]).op = "do_search"
  /\ queue' = [queue EXCEPT ![w] = Tail(@)]
  /\ LET slot == Head(queue[w]) IN
     IF smb_connection[w] = "none"
     THEN UNCHANGED <<is_caching, file_path_cache, wpc, cur, bldvars, walks, emitted, inbox>>
     ELSE IF is_caching[w]
     THEN /\ Answer(w, slot, "busy", <<>>)
          /\ UNCHANGED <<is_caching, file_path_cache, wpc, cur, bldvars, walks>>
     ELSE IF NeedsBuild(is_cached[w])
     THEN /\ EnterBuild(w, slot)
          /\ UNCHANGED <<emitted, inbox>>
     ELSE /\ Answer(w, slot, "ready", SearchCache(file_path_cache[w], slot.kw))
          /\ UNCHANGED <<is_caching, file_path_cache, wpc, cur, bldvars, walks>>
  /\ UNCHANGED <<offbrowser, envvars, default_proxy, config, smb_connection, is_running,
                 is_cached, quit_req, browser_worker, gpc, connect_enabled,
                 disconnect_enabled, search_enabled, cntvars, list_count, levels,
                 submit_count, stop_phase, stop_quiet, stop_levels, misrouted, sess_ops>>

\* do_preview / do_download: retrieveFile on the interactive session
SlotRetrieve(w) ==
  /\ wpc[w] = "loop" /\ queue[w] # <<>> /\ Head(queue[w]).op \in {"do_preview", "do_download"}
  /\ queue' = [queue EXCEPT ![w] = Tail(@)]
  /\ IF ~is_running[w] \/ smb_connection[w] = "none"
     THEN UNCHANGED <<wpc, sess_ops>>
     ELSE /\ wpc' = [wpc EXCEPT ![w] = "retrieve"]
          /\ sess_ops' = [sess_ops EXCEPT ![w] = @ \cup {"worker"}]
  /\ UNCHANGED <<offbrowser, envvars, default_proxy, objvars, quit_req, cur, bldvars, guivars,
                 cntvars, walks, list_count, levels, submit_count, stop_phase, stop_quiet,
                 stop_levels, emitted, misrouted>>

RetrieveEnd(w) ==
  /\ wpc[w] = "retrieve"
  /\ wpc' = [wpc EXCEPT ![w] = "loop"]
  /\ sess_ops' = [sess_ops EXCEPT ![w] = @ \ {"worker"}]
  /\ UNCHANGED <<offbrowser, envvars, default_proxy, objvars, queue, quit_req, cur, bldvars,
                 guivars, cntvars, walks, list_count, levels, submit_count, stop_phase,
                 stop_quiet, stop_levels, emitted, misrouted>>

\* QThread.quit() takes effect once the thread is back in its event loop
\* (slot calls that are still queued may or may not be taken up before it does)
ThreadExit(w) ==
  /\ wpc[w] = "loop" /\ quit_req[w]
  /\ wpc' = [wpc EXCEPT ![w] = "finished"]
  /\ UNCHANGED <<offbrowser, envvars, default_proxy, objvars, queue, quit_req, cur, bldvars,
                 guivars, cntvars, hisvars>>


(* ---- BrowserWorker._build_cache_parallel, run on the worker's thread ---- *)
InBuild(w) == wpc[w] \in {"start_background_caching", "do_search"}
DoneStates == {"ok", "exc", "skipped"}
AllDone(fs) == \A i \in 1 .. Len(fs) : fs[i].st \in DoneStates
Executing(fs) == {i \in 1 .. Len(fs) : fs[i].st \in {"checked", "proxyset", "connected"}}

\* lines 586-587: while dirs_to_scan: if not self._is_running: break
BuildWhile(w) ==
  /\ InBuild(w) /\ bpc[w] = "while"
  /\ bpc' = [bpc EXCEPT ![w] = IF dirs_to_scan[w] = <<>> \/ ~is_running[w]
                                THEN "shutdown" ELSE "submit"]
  /\ UNCHANGED <<offbrowser, envvars, default_proxy, objvars, thrvars, dirs_to_scan,
                 next_level_dirs, futures, build_exc, guivars, cntvars, hisvars>>

\* the submissions so far, by path, after one more future for every path of dirs
Submitted(cnt, dirs) ==
  [p \in DOMAIN cnt \cup {dirs[i] : i \in 1 .. Len(dirs)} |->
     (IF p \in DOMAIN cnt THEN cnt[p] ELSE 0)
       + Cardinality({i \in 1 .. Len(dirs) : dirs[i] = p})]

\* lines 588-589: one future per path of the frontier
BuildSubmit(w) ==
  /\ InBuild(w) /\ bpc[w] = "submit"
  /\ next_level_dirs' = [next_level_dirs EXCEPT ![w] = <<>>]
  /\ futures' = [futures EXCEPT ![w] =
       [i \in 1 .. Len(dirs_to_scan[w]) |->
          [path |-> dirs_to_scan[w][i], st |-> "pending", seen |-> FALSE,
           conn |-> "none", taken |-> FALSE]]]
  /\ bpc' = [bpc EXCEPT ![w] = "collect"]
  /\ levels' = [levels EXCEPT ![w] = @ + 1]
  /\ submit_count' = [submit_count EXCEPT ![w] = Submitted(@, dirs_to_scan[w])]
  /\ UNCHANGED <<offbrowser, envvars, default_proxy, objvars, thrvars, dirs_to_scan, build_exc,
                 guivars, cntvars, walks, list_count, stop_phase, stop_quiet, stop_levels,
                 emitted, misrouted, sess_ops>>

\* future.result() of a finished task
TaskResult(f) ==
  IF f.st = "ok" THEN FetchLoop(f.path, ShareTree(share)[f.path])
  ELSE [files |-> <<>>, subdirs |-> <<>>]

\* a bug: the loop over the level's futures ends at the first result
LevelCollectedFirst(fs) == \E j \in 1 .. Len(fs) : fs[j].seen

\* line 591: as_completed(futures) ends when every future of the level was yielded
LevelCollected(fs) == \A j \in 1 .. Len(fs) : fs[j].seen

\* a bug: the result is assigned to the cache, not appended
ProcessFutureOverwrite(st, res, cache, next) ==
  IF st = "exc" THEN [cache |-> cache, next |-> next, raised |-> FALSE]
  ELSE [cache |-> res.files, next |-> next \o res.subdirs, raised |-> FALSE]

\* a bug: the result is put in front of the cache
ProcessFuturePrepend(st, res, cache, next) ==
  IF st = "exc" THEN [cache |-> cache, next |-> next, raised |-> FALSE]
  ELSE [cache |-> res.files \o cache, next |-> next \o res.subdirs, raised |-> FALSE]

\* a bug: no try/except around future.result(), the task's exception leaves the walk
ProcessFutureUncaught(st, res, cache, next) ==
  IF st = "exc" THEN [cache |-> cache, next |-> next, raised |-> TRUE]
  ELSE [cache |-> cache \o res.files, next |-> next \o res.subdirs, raised |-> FALSE]

\* lines 593-598: try: extend cache and next level / except: print
ProcessFuture(st, res, cache, next) ==
  IF st = "exc" THEN [cache |-> cache, next |-> next, raised |-> FALSE]
  ELSE [cache |-> cache \o res.files, next |-> next \o res.subdirs, raised |-> FALSE]

\* lines 591-598: as_completed hands over a finished future
BuildCollect(w, i) ==
  /\ InBuild(w) /\ bpc[w] = "collect"
  /\ i \in 1 .. Len(futures[w])
  /\ futures[w][i].st \in DoneStates /\ ~futures[w][i].seen
  /\ IF ~is_running[w]
     THEN /\ bpc' = [bpc EXCEPT ![w] = "assign"]
          /\ UNCHANGED <<file_path_cache, next_level_dirs, futures, build_exc>>
     ELSE LET f == futures[w][i]
              r == ProcessFuture(f.st, TaskResult(f), file_path_cache[w], next_level_dirs[w])
              fs == [futures[w] EXCEPT ![i].seen = TRUE]
          IN  /\ file_path_cache' = [file_path_cache EXCEPT ![w] = r.cache]
              /\ next_level_dirs' = [next_level_dirs EXCEPT ![w] = r.next]
              /\ futures' = [futures EXCEPT ![w] = fs]
              /\ build_exc' = [build_exc EXCEPT ![w] = r.raised]
              /\ bpc' = [bpc EXCEPT ![w] =
                   IF r.raised THEN "shutdown"
                   ELSE IF LevelCollected(fs) THEN "assign" ELSE "collect"]
  /\ UNCHANGED <<offbrowser, envvars, default_proxy, config, smb_connection, is_running,
                 is_cached, is_caching, thrvars, dirs_to_scan, guivars, cntvars, hisvars>>

\* The round of the loop in its two steps, for the runs in which stop() may fall
\* between them. Lines 591-592: as_completed hands over a finished future, the flag is
\* tested
BuildCollectTest(w, i) ==
  /\ InBuild(w) /\ bpc[w] = "collect"
  /\ i \in 1 .. Len(futures[w])
  /\ futures[w][i].st \in DoneStates /\ ~futures[w][i].seen
  /\ IF ~is_running[w]
     THEN /\ bpc' = [bpc EXCEPT ![w] = "assign"]
          /\ UNCHANGED futures
     ELSE /\ bpc' = [bpc EXCEPT ![w] = "extend"]
          /\ futures' = [futures EXCEPT ![w][i].taken = TRUE]
  /\ UNCHANGED <<offbrowser, envvars, default_proxy, objvars, thrvars, dirs_to_scan,
                 next_level_dirs, build_exc, guivars, cntvars, hisvars>>

\* lines 593-598: the result of the future that was handed over
BuildCollectExtend(w, i) ==
  /\ InBuild(w) /\ bpc[w] = "extend"
  /\ i \in 1 .. Len(futures[w])
  /\ futures[w][i].taken /\ ~futures[w][i].seen
  /\ LET f == futures[w][i]
         r == ProcessFuture(f.st, TaskResult(f), file_path_cache[w], next_level_dirs[w])
         fs == [futures[w] EXCEPT ![i].seen = TRUE]
     IN  /\ file_path_cache' = [file_path_cache EXCEPT ![w] = r.cache]
         /\ next_level_dirs' = [next_level_dirs EXCEPT ![w] = r.next]
         /\ futures' = [futures EXCEPT ![w] = fs]
         /\ build_exc' = [build_exc EXCEPT ![w] = r.raised]
         /\ bpc' = [bpc EXCEPT ![w] =
              IF r.raised THEN "shutdown"
              ELSE IF LevelCollected(fs) THEN "assign" ELSE "collect"]
  /\ UNCHANGED <<offbrowser, envvars, default_proxy, config, smb_connection, is_running,
                 is_cached, is_caching, thrvars, dirs_to_scan, guivars, cntvars, hisvars>>

\* line 599: dirs_to_scan = next_level_dirs
BuildAssign(w) ==
  /\ InBuild(w) /\ bpc[w] = "assign"
  /\ dirs_to_scan' = [dirs_to_scan EXCEPT ![w] = next_level_dirs[w]]
  /\ bpc' = [bpc EXCEPT ![w] = "while"]
  /\ UNCHANGED <<offbrowser, envvars, default_proxy, objvars, thrvars, next_level_dirs, futures,
                 build_exc, guivars, cntvars, hisvars>>

\* a bug: the caller does not reset is_caching when the walk has ended
BuildReturnKeepsFlag(w) ==
  /\ InBuild(w) /\ bpc[w] = "shutdown" /\ AllDone(futures[w])
  /\ bpc' = [bpc EXCEPT ![w] = "none"]
  /\ wpc' = [wpc EXCEPT ![w] = "loop"]
  /\ is_cached' = [is_cached EXCEPT ![w] = IF build_exc[w] THEN @ ELSE TRUE]
  /\ IF wpc[w] = "do_search"
     THEN Answer(w, cur[w], IF build_exc[w] THEN "error" ELSE "lazy",
                 IF build_exc[w] THEN <<>> ELSE SearchCache(file_path_cache[w], cur[w].kw))
     ELSE UNCHANGED <<emitted, inbox>>
  /\ UNCHANGED <<offbrowser, envvars, default_proxy, config, smb_connection, is_running,
                 is_caching, file_path_cache, queue, quit_req, cur, dirs_to_scan,
                 next_level_dirs, futures, build_exc, browser_worker, gpc, connect_enabled,
                 disconnect_enabled, search_enabled, cntvars, walks, list_count, levels,
                 submit_count, stop_phase, stop_quiet, stop_levels, misrouted, sess_ops>>

\* the executor's exit waits for every submitted task; then the caller goes on:
\* start_background_caching lines 545-550, do_search lines 567-581
BuildReturn(w) ==
  /\ InBuild(w) /\ bpc[w] = "shutdown" /\ AllDone(futures[w])
  /\ bpc' = [bpc EXCEPT ![w] = "none"]
  /\ wpc' = [wpc EXCEPT ![w] = "loop"]
  /\ is_cached' = [is_cached EXCEPT ![w] = IF build_exc[w] THEN @ ELSE TRUE]
  /\ is_caching' = [is_caching EXCEPT ![w] = FALSE]
  /\ IF wpc[w] = "do_search"
     THEN Answer(w, cur[w], IF build_exc[w] THEN "error" ELSE "lazy",
                 IF build_exc[w] THEN <<>> ELSE SearchCache(file_path_cache[w], cur[w].kw))
     ELSE UNCHANGED <<emitted, inbox>>
  /\ UNCHANGED <<offbrowser, envvars, default_proxy, config, smb_connection, is_running,
                 file_path_cache, queue, quit_req, cur, dirs_to_scan, next_level_dirs,
                 futures, build_exc, browser_worker, gpc, connect_enabled, disconnect_enabled,
                 search_enabled, cntvars, walks, list_count, levels, submit_count, stop_phase,
                 stop_quiet, stop_levels, misrouted, sess_ops>>

(* ---- BrowserWorker._fetch_path_contents, run on a pool thread ---- *)
\* a bug: the task does not look at the flag
FetchGuardMissing(running) == TRUE

\* line 602: the task goes on only while the worker is running
FetchGuard(running) == running

\* the session of a task: conn.connect (line 612) opens it, conn.close (line 622) is
\* reached when the loop over listPath has ended, and an exception leaves it as it was
SessionAfter(conn, st) ==
  CASE st = "connected" -> "open"
    [] st = "ok" -> "closed"
    [] OTHER -> conn

SetFuture(w, i, st) ==
  futures' = [futures EXCEPT ![w][i].st = st, ![w][i].conn = SessionAfter(@, st)]

\* a bug: every submitted task gets a thread of its own at once
TaskStartUnbounded(w, i) ==
  /\ i \in 1 .. Len(futures[w]) /\ futures[w][i].st = "pending"
  /\ IF FetchGuard(is_running[w])
     THEN SetFuture(w, i, "checked")
     ELSE SetFuture(w, i, "skipped")
  /\ UNCHANGED <<offbrowser, envvars, default_proxy, objvars, thrvars, bpc, dirs_to_scan,
                 next_level_dirs, build_exc, guivars, cntvars, hisvars>>

\* lines 585, 602-603: a thread of the pool of max_workers takes the task; the flag, the
\* status
TaskStart(w, i) ==
  /\ i \in 1 .. Len(futures[w]) /\ futures[w][i].st = "pending"
  /\ Cardinality(Executing(futures[w])) < max_workers
  /\ IF FetchGuard(is_running[w])
     THEN SetFuture(w, i, "checked")
     ELSE SetFuture(w, i, "skipped")
  /\ UNCHANGED <<offbrowser, envvars, default_proxy, objvars, thrvars, bpc, dirs_to_scan,
                 next_level_dirs, build_exc, guivars, cntvars, hisvars>>

\* lines 605-611: the default proxy of the process, the socket class, the session object
TaskSetProxy(w, i) ==
  /\ i \in 1 .. Len(futures[w]) /\ futures[w][i].st = "checked"
  /\ default_proxy' = ProxyOf(config[w])
  /\ SetFuture(w, i, "proxyset")
  /\ UNCHANGED <<offbrowser, envvars, objvars, thrvars, bpc, dirs_to_scan, next_level_dirs,
                 build_exc, guivars, cntvars, hisvars>>

\* line 612: conn.connect, through the default proxy of this moment
TaskConnect(w, i) ==
  /\ i \in 1 .. Len(futures[w]) /\ futures[w][i].st = "proxyset"
  /\ misrouted' = (misrouted \/ default_proxy # ProxyOf(config[w]))
  /\ \/ SetFuture(w, i, "connected")
     \/ /\ futures[w][i].path \in failPaths
        /\ SetFuture(w, i, "exc")
  /\ UNCHANGED <<offbrowser, envvars, default_proxy, objvars, thrvars, bpc, dirs_to_scan,
                 next_level_dirs, build_exc, guivars, cntvars, walks, list_count, levels,
                 submit_count, stop_phase, stop_quiet, stop_levels, emitted, sess_ops>>

Bump(cnt, p) == IF p \in DOMAIN cnt THEN [cnt EXCEPT ![p] = @ + 1] ELSE cnt @@ (p :> 1)

\* lines 614-623: conn.listPath, the loop over its items, conn.close
TaskList(w, i) ==
  /\ i \in 1 .. Len(futures[w]) /\ futures[w][i].st = "connected"
  /\ list_count' = [list_count EXCEPT ![w] = Bump(@, futures[w][i].path)]
  /\ IF futures[w][i].path \in failPaths \/ futures[w][i].path \notin DOMAIN ShareTree(share)
     THEN SetFuture(w, i, "exc")
     ELSE SetFuture(w, i, "ok")
  /\ UNCHANGED <<offbrowser, envvars, default_proxy, objvars, thrvars, bpc, dirs_to_scan,
                 next_level_dirs, build_exc, guivars, cntvars, walks, levels, submit_count,
                 stop_phase, stop_quiet, stop_levels, emitted, misrouted, sess_ops>>


(* ---- SMBBrowserApp: the GUI thread ---- *)
ThreadRunning(w) == w # 0 /\ wpc[w] # "finished"

Call(w, op, kw) == [op |-> op, kw |-> kw, during |-> is_caching[w]]
Invoke(w, op, kw) == queue' = [queue EXCEPT ![w] = Append(@, Call(w, op, kw))]

\* BrowserWorker.stop, lines 653-657, called on the GUI thread
Stop(w) ==
  /\ is_running' = [is_running EXCEPT ![w] = FALSE]
  /\ smb_connection' = [smb_connection EXCEPT ![w] = IF @ = "none" THEN @ ELSE "closed"]
  /\ stop_phase' = [stop_phase EXCEPT ![w] =
       IF @ # "none" THEN @
       ELSE IF is_caching[w] THEN "during" ELSE IF is_cached[w] THEN "after" ELSE "before"]
  /\ stop_quiet' = [stop_quiet EXCEPT ![w] =
       is_running[w] /\ InBuild(w) /\ bpc[w] \in {"while", "submit", "collect", "assign"}
       /\ levels[w] > 0 /\ AllDone(futures[w])]
  /\ stop_levels' = [stop_levels EXCEPT ![w] = IF is_running[w] THEN levels[w] ELSE @]

\* reset_browser_ui, lines 1153-1158
ResetBrowserUi ==
  /\ connect_enabled' = TRUE
  /\ disconnect_enabled' = FALSE
  /\ search_enabled' = FALSE

\* a bug: the new connection takes over the worker object of the connection before it
CreateWorkerReuse(w, cfg) ==
  LET v == IF w = 1 THEN 1 ELSE w - 1 IN
  /\ config' = [config EXCEPT ![v] = cfg]
  /\ wpc' = [wpc EXCEPT ![v] = "run_browser"]
  /\ browser_worker' = v
  /\ connect_enabled' = FALSE
  /\ disconnect_enabled' = FALSE
  /\ search_enabled' = FALSE
  /\ nconn' = nconn + 1

\* start_connection lines 1017-1033: a new worker on a new thread
CreateWorker(w, cfg) ==
  /\ config' = [config EXCEPT ![w] = cfg]
  /\ wpc' = [wpc EXCEPT ![w] = "run_browser"]
  /\ browser_worker' = w
  /\ connect_enabled' = FALSE
  /\ disconnect_enabled' = FALSE
  /\ search_enabled' = FALSE
  /\ nconn' = nconn + 1

\* disconnect(), lines 1148-1150, entered from the button or from start_connection
ClickDisconnect ==
  /\ gpc = "idle" /\ disconnect_enabled
  /\ IF ThreadRunning(browser_worker)
     THEN /\ Stop(browser_worker)
          /\ quit_req' = [quit_req EXCEPT ![browser_worker] = TRUE]
          /\ gpc' = "wait_disconnect"
          /\ UNCHANGED <<browser_worker, connect_enabled, disconnect_enabled, search_enabled>>
     ELSE /\ browser_worker' = 0
          /\ ResetBrowserUi
          /\ UNCHANGED <<is_running, smb_connection, stop_phase, stop_quiet, stop_levels,
                         quit_req, gpc>>
  /\ UNCHANGED <<offbrowser, envvars, default_proxy, config, is_cached, is_caching,
                 file_path_cache, wpc, queue, cur, bldvars, inbox, cntvars, walks, list_count,
                 levels, submit_count, emitted, misrouted, sess_ops>>

ClickConnect ==
  /\ gpc = "idle" /\ connect_enabled /\ nconn < MaxConn
  /\ IF ThreadRunning(browser_worker)
     THEN /\ Stop(browser_worker)
          /\ quit_req' = [quit_req EXCEPT ![browser_worker] = TRUE]
          /\ gpc' = "wait_connect"
          /\ UNCHANGED <<config, wpc, browser_worker, connect_enabled, disconnect_enabled,
                         search_enabled, nconn>>
     ELSE /\ \E cfg \in ProxyConfigs : CreateWorker(nconn + 1, cfg)
          /\ UNCHANGED <<is_running, smb_connection, stop_phase, stop_quiet, stop_levels,
                         quit_req, gpc>>
  /\ UNCHANGED <<offbrowser, envvars, default_proxy, is_cached, is_caching, file_path_cache,
                 queue, cur, bldvars, inbox, nsearch, npreview, nbrowse, walks, list_count,
                 levels, submit_count, emitted, misrouted, sess_ops>>

\* browser_worker_thread.wait(3000) returns, the thread finished or not; line 1151
WaitReturns ==
  /\ gpc \in {"wait_disconnect", "wait_connect"}
  /\ gpc' = "idle"
  /\ IF gpc = "wait_connect"
     THEN \E cfg \in ProxyConfigs : CreateWorker(nconn + 1, cfg)
     ELSE /\ browser_worker' = 0
          /\ ResetBrowserUi
          /\ UNCHANGED <<config, wpc, nconn>>
  /\ UNCHANGED <<offbrowser, envvars, default_proxy, smb_connection, is_running, is_cached,
                 is_caching, file_path_cache, queue, quit_req, cur, bldvars, inbox, nsearch,
                 npreview, nbrowse, hisvars>>

\* start_search, lines 1036-1042
StartSearch(kw) ==
  /\ gpc = "idle" /\ search_enabled /\ browser_worker # 0 /\ nsearch < MaxSearch
  /\ search_enabled' = FALSE
  /\ Invoke(browser_worker, "do_search", kw)
  /\ nsearch' = nsearch + 1
  /\ UNCHANGED <<offbrowser, envvars, default_proxy, objvars, wpc, quit_req, cur, bldvars,
                 browser_worker, gpc, connect_enabled, disconnect_enabled, inbox, nconn,
                 npreview, nbrowse, hisvars>>

\* start_preview / start_download, lines 1138-1146
StartRetrieve(op) ==
  /\ gpc = "idle" /\ disconnect_enabled /\ browser_worker # 0 /\ npreview < MaxPreview
  /\ Invoke(browser_worker, op, <<>>)
  /\ npreview' = npreview + 1
  /\ UNCHANGED <<offbrowser, envvars, default_proxy, objvars, wpc, quit_req, cur, bldvars,
                 guivars, nconn, nsearch, nbrowse, hisvars>>

\* SMBBrowserApp.browse_path -> BrowserWorker.browse_path, on the GUI thread
GuiBrowseBegin ==
  /\ gpc = "idle" /\ disconnect_enabled /\ browser_worker # 0 /\ nbrowse < MaxBrowse
  /\ smb_connection[browser_worker] # "none"
  /\ sess_ops' = [sess_ops EXCEPT ![browser_worker] = @ \cup {"gui"}]
  /\ gpc' = "browse"
  /\ nbrowse' = nbrowse + 1
  /\ UNCHANGED <<offbrowser, envvars, default_proxy, objvars, thrvars, bldvars, browser_worker,
                 connect_enabled, disconnect_enabled, search_enabled, inbox, nconn, nsearch,
                 npreview, walks, list_count, levels, submit_count, stop_phase, stop_quiet,
                 stop_levels, emitted, misrouted>>

GuiBrowseEnd ==
  /\ gpc = "browse"
  /\ sess_ops' = [sess_ops EXCEPT ![browser_worker] = @ \ {"gui"}]
  /\ gpc' = "idle"
  /\ UNCHANGED <<offbrowser, envvars, default_proxy, objvars, thrvars, bldvars, browser_worker,
                 connect_enabled, disconnect_enabled, search_enabled, inbox, cntvars, walks,
                 list_count, levels, submit_count, stop_phase, stop_quiet, stop_levels,
                 emitted, misrouted>>


(* ---- signals of the workers, delivered on the GUI thread ---- *)
Delivered(name) == gpc = "idle" /\ inbox # <<>> /\ Head(inbox).sig = name

\* on_connection_success lines 1176-1177
AutoIndex ==
  IF browser_worker # 0 /\ auto_index
  THEN Invoke(browser_worker, "start_background_caching", <<>>)
  ELSE UNCHANGED queue

\* on_connection_success, lines 1168-1173: the buttons, then browse_path('/')
OnConnectionSuccess ==
  /\ Delivered("connection_success")
  /\ inbox' = Tail(inbox)
  /\ disconnect_enabled' = TRUE
  /\ search_enabled' = TRUE
  /\ IF browser_worker # 0 /\ smb_connection[browser_worker] # "none"
     THEN /\ sess_ops' = [sess_ops EXCEPT ![browser_worker] = @ \cup {"gui"}]
          /\ gpc' = "success_browse"
          /\ UNCHANGED queue
     ELSE /\ AutoIndex
          /\ UNCHANGED <<sess_ops, gpc>>
  /\ UNCHANGED <<offbrowser, envvars, default_proxy, objvars, wpc, quit_req, cur, bldvars,
                 browser_worker, connect_enabled, cntvars, walks, list_count, levels,
                 submit_count, stop_phase, stop_quiet, stop_levels, emitted, misrouted>>

OnConnectionSuccessEnd ==
  /\ gpc = "success_browse"
  /\ sess_ops' = [sess_ops EXCEPT ![browser_worker] = @ \ {"gui"}]
  /\ gpc' = "idle"
  /\ AutoIndex
  /\ UNCHANGED <<offbrowser, envvars, default_proxy, objvars, wpc, quit_req, cur, bldvars,
                 browser_worker, connect_enabled, disconnect_enabled, search_enabled, inbox,
                 cntvars, walks, list_count, levels, submit_count, stop_phase, stop_quiet,
                 stop_levels, emitted, misrouted>>

\* on_connection_failed, line 1181
OnConnectionFailed ==
  /\ Delivered("connection_failed")
  /\ inbox' = Tail(inbox)
  /\ ResetBrowserUi
  /\ UNCHANGED <<offbrowser, envvars, default_proxy, objvars, thrvars, bldvars, browser_worker,
                 gpc, cntvars, hisvars>>

\* on_search_finished, lines 1050-1069
OnSearchFinished ==
  /\ Delivered("search_finished")
  /\ inbox' = Tail(inbox)
  /\ IF Head(inbox).results = <<>> /\ browser_worker # 0 /\ is_caching[browser_worker]
     THEN UNCHANGED search_enabled
     ELSE search_enabled' = TRUE
  /\ UNCHANGED <<offbrowser, envvars, default_proxy, objvars, thrvars, bldvars, browser_worker,
                 gpc, connect_enabled, disconnect_enabled, cntvars, hisvars>>

(* ---- specifications ---- *)
IndexStep(w) ==
  \/ RunBrowserStart(w) \/ RunBrowserConnect(w) \/ RunBrowserBrowse(w)
  \/ SlotStartCaching(w) \/ SlotSearch(w) \/ ThreadExit(w)
  \/ BuildWhile(w) \/ BuildSubmit(w) \/ BuildAssign(w) \/ BuildReturn(w)
  \/ \E i \in 1 .. Len(futures[w]) :
       \/ BuildCollect(w, i) \/ TaskStart(w, i) \/ TaskSetProxy(w, i)
       \/ TaskConnect(w, i) \/ TaskList(w, i)

GuiIndexStep ==
  \/ ClickDisconnect \/ WaitReturns
  \/ \E kw \in Keywords : StartSearch(kw)
  \/ OnConnectionSuccess \/ OnConnectionSuccessEnd \/ OnConnectionFailed \/ OnSearchFinished

\* the first connection of a run of the application
ClickConnectFirst == nconn = 0 /\ ClickConnect

InitSmallShare == Init /\ share = 2

\* Spec: the first connection, from connect to after its disconnect; the user searches
Next == ClickConnectFirst \/ GuiIndexStep \/ \E w \in Workers : IndexStep(w)

Spec == Init /\ [][Next]_vars

\* SpecSession: the first connection; the user also previews, downloads and browses
NextSession ==
  \/ Next
  \/ \E op \in {"do_preview", "do_download"} : StartRetrieve(op)
  \/ GuiBrowseBegin \/ GuiBrowseEnd
  \/ \E w \in Workers : SlotRetrieve(w) \/ RetrieveEnd(w)

SpecSession == InitSmallShare /\ [][NextSession]_vars

\* SpecReconnect: the user connects, disconnects and connects again, and does not search
ReconnectStep(w) ==
  \/ RunBrowserStart(w) \/ RunBrowserConnect(w) \/ RunBrowserBrowse(w)
  \/ SlotStartCaching(w) \/ ThreadExit(w)
  \/ BuildWhile(w) \/ BuildSubmit(w) \/ BuildAssign(w) \/ BuildReturn(w)
  \/ \E i \in 1 .. Len(futures[w]) :
       \/ BuildCollect(w, i) \/ TaskStart(w, i) \/ TaskSetProxy(w, i)
       \/ TaskConnect(w, i) \/ TaskList(w, i)

NextReconnect ==
  \/ ClickConnect \/ ClickDisconnect \/ WaitReturns
  \/ OnConnectionSuccess \/ OnConnectionSuccessEnd \/ OnConnectionFailed
  \/ \E w \in Workers : ReconnectStep(w)

SpecReconnect == InitSmallShare /\ [][NextReconnect]_vars

\* SpecTwoBuilds: two connections on the share with two sibling directories, the index
\* built on connect and left to be built, so that two builds of one share can be compared
InitSiblings == Init /\ share = 3 /\ auto_index

\* the first connection of a run and the one after it
ClickConnectTwice == nconn < 2 /\ ClickConnect

\* the user disconnects when the walk of the connection has ended
ClickDisconnectBuilt ==
  /\ browser_worker # 0 /\ walks[browser_worker] > 0 /\ ~InBuild(browser_worker)
  /\ ClickDisconnect

NextTwoBuilds ==
  \/ ClickConnectTwice \/ ClickDisconnectBuilt \/ WaitReturns
  \/ OnConnectionSuccess \/ OnConnectionSuccessEnd \/ OnConnectionFailed
  \/ \E w \in Workers : ReconnectStep(w)

SpecTwoBuilds == InitSiblings /\ [][NextTwoBuilds]_vars


(* ======================================================================= *)
(* scanner_process.py: the scanner, a process started by the main window   *)
(* ======================================================================= *)
MaxHosts == 2

\* max_workers of the pools of stage 1 and of stage 2
probe_max_workers == 100
enum_max_workers == 25

\* what port_check returns for a host it could not reach, what check_smb_host returns
\* for a host it does not report
NoHost == 0
None == [status |-> "None"]

(* ---- the hosts of a subnet ---- *)
\* a share of a host: its name, and whether listPath of "/", createDirectory and
\* deleteDirectory of a temporary directory succeed on it
SharedDevice(name, l, c, d) == [name |-> name, list_ok |-> l, create_ok |-> c, delete_ok |-> d]

HostKinds == {"dead", "refuse", "raise", "noshares", "adminonly", "mixed"}

\* a share name in which the tag of a protocol line occurs
TaggedName == <<"R", "E", "S", "U", "L", "T", ":", "x">>

\* dead: port 445 closed; refuse: connect returns False; raise: connect or listShares
\* raises; noshares, adminonly, mixed: what listShares returns
HostProfile(kind) ==
  [port_open |-> kind # "dead",
   connect |-> IF kind \in {"refuse", "raise"} THEN kind ELSE "ok",
   shares |->
     IF kind = "adminonly" THEN
       <<SharedDevice(<<"C", "$">>, TRUE, TRUE, TRUE),
         SharedDevice(<<"I", "P", "C", "$">>, FALSE, FALSE, FALSE)>>
     ELSE IF kind = "mixed" THEN
       <<SharedDevice(<<"C", "$">>, TRUE, TRUE, TRUE),
         SharedDevice(<<"r", "w">>, TRUE, TRUE, TRUE),
         SharedDevice(<<"r", "o">>, TRUE, FALSE, FALSE),
         SharedDevice(<<"w", "o">>, FALSE, TRUE, TRUE),
         SharedDevice(<<"n", "o">>, FALSE, FALSE, FALSE),
         SharedDevice(<<"a", "$", "b">>, TRUE, TRUE, FALSE),
         SharedDevice(<<"x">>, FALSE, TRUE, FALSE)>>
     ELSE IF kind \in {"refuse", "raise"} THEN
       <<SharedDevice(<<"r", "w">>, TRUE, TRUE, TRUE)>>
     ELSE IF kind = "tagged" THEN
       <<SharedDevice(TaggedName, TRUE, FALSE, FALSE)>>
     ELSE <<>>]

ScanArgs ==
  {[no_proxy |-> np, proxy_port |-> pp, quick_scan |-> q] :
     np \in BOOLEAN, pp \in {0, 1337}, q \in BOOLEAN}

(* ---- port_check ---- *)
\* a bug: the host is returned whether or not the connect succeeded
PortCheckAlwaysHost(host, p) == host

\* lines 126-141: the host when the connect to port 445 succeeds, None otherwise
PortCheck(host, p) == IF p.port_open THEN host ELSE NoHost

(* ---- check_smb_host ---- *)
\* a bug: no share is taken for an administrative one
IsAdminShareNever(name) == FALSE

\* a bug: every share is taken for an administrative one
IsAdminShareAlways(name) == TRUE

\* line 40: share.name.endswith('$')
IsAdminShare(name) == Len(name) > 0 /\ name[Len(name)] = "$"

RECURSIVE JoinStr(_, _)
\* sep.join(list)
JoinStr(list, sep) ==
  IF list = <<>> THEN ""
  ELSE IF Len(list) = 1 THEN list[1]
  ELSE list[1] \o sep \o JoinStr(Tail(list), sep)

\* a bug: WRITE is recorded as soon as createDirectory succeeds
PermsListWriteOnCreate(sh) ==
  (IF sh.list_ok THEN <<"READ">> ELSE <<>>) \o (IF sh.create_ok THEN <<"WRITE">> ELSE <<>>)

\* lines 43-56: READ when listPath returns, WRITE when createDirectory and
\* deleteDirectory both return
PermsList(sh) ==
  (IF sh.list_ok THEN <<"READ">> ELSE <<>>)
    \o (IF sh.create_ok /\ sh.delete_ok THEN <<"WRITE">> ELSE <<>>)

\* lines 41-59
Permissions(sh, quick_scan) ==
  IF ~quick_scan
  THEN IF PermsList(sh) # <<>> THEN JoinStr(PermsList(sh), ", ") ELSE "NO_ACCESS"
  ELSE "N/A (Quick Scan)"

\* a bug: the probes are made in a quick scan too
ShareProbesAlways(sh, quick_scan) ==
  <<"listPath", "createDirectory">> \o (IF sh.create_ok THEN <<"deleteDirectory">> ELSE <<>>)

\* the calls made on a share: none in a quick scan; deleteDirectory is reached only
\* when createDirectory returned
ShareProbes(sh, quick_scan) ==
  IF quick_scan THEN <<>>
  ELSE <<"listPath", "createDirectory">>
         \o (IF sh.create_ok THEN <<"deleteDirectory">> ELSE <<>>)

\* a bug: the shares are reported whatever connect and listShares did
HostListedAlways(p) == TRUE

\* lines 34-37, 67-68: the shares are listed when connect returned true and neither
\* connect nor listShares raised
HostListed(p) == p.connect = "ok"

\* lines 15-74: the value returned, the calls made on shares, the temporary
\* directories that were created and not deleted
CheckSmbHost(host, p, quick_scan) ==
  LET kept == SelectSeq(p.shares, LAMBDA sh : ~IsAdminShare(sh.name))
      share_info == [i \in 1 .. Len(kept) |->
                       [name |-> kept[i].name,
                        permissions |-> Permissions(kept[i], quick_scan)]]
      listed == HostListed(p)
  IN  [result |-> IF listed /\ share_info # <<>>
                  THEN [host |-> host, status |-> "success", shares |-> share_info]
                  ELSE None,
       calls |-> IF listed
                 THEN UNION {{[host |-> host, share |-> kept[i].name,
                               call |-> ShareProbes(kept[i], quick_scan)[j]] :
                                j \in 1 .. Len(ShareProbes(kept[i], quick_scan))} :
                             i \in 1 .. Len(kept)}
                 ELSE {},
       left |-> IF listed
                THEN {<<host, kept[i].name>> :
                        i \in {k \in 1 .. Len(kept) :
                                 /\ "createDirectory" \in
                                      {ShareProbes(kept[k], quick_scan)[j] :
                                         j \in 1 .. Len(ShareProbes(kept[k], quick_scan))}
                                 /\ kept[k].create_ok /\ ~kept[k].delete_ok}}
                ELSE {}]

(* ---- main() ---- *)
StatusLine(text, a, b) == [tag |-> "STATUS", text |-> text, a |-> a, b |-> b]
ResultLine(result) == [tag |-> "RESULT", result |-> result]

\* the scanner was started on a subnet; proxy_port 0 stands for an absent --proxy-port
InitScan ==
  /\ InitBrowser /\ share = 2 /\ failPaths = {} /\ auto_index
  /\ TabIdle /\ NoBrowseCall
  /\ args \in ScanArgs
  /\ subnet_valid \in BOOLEAN
  /\ hosts_to_scan \in {[i \in 1 .. n |-> i] : n \in 1 .. MaxHosts}
  /\ profile \in [1 .. Len(hosts_to_scan) -> HostKinds]
  /\ spc = "start"
  /\ probe_futures = <<>>
  /\ open_hosts = <<>>
  /\ enum_futures = <<>>
  /\ processed_count = 0
  /\ stdout = <<>>
  /\ probe_count = [i \in 1 .. Len(hosts_to_scan) |-> 0]
  /\ enum_count = [i \in 1 .. Len(hosts_to_scan) |-> 0]
  /\ smb_calls = {}
  /\ temp_dirs = {}

\* a bug: the scanner goes on without a proxy port
ProxyPortMissingIgnored(a) == FALSE

\* lines 88-89: a proxy is asked for and no port is given
ProxyPortMissing(a) == ~a.no_proxy /\ a.proxy_port = 0

\* lines 88-107: the proxy arguments, the subnet, the futures of stage 1
MainStart ==
  /\ spc = "start"
  /\ IF ProxyPortMissing(args)
     THEN /\ stdout' = Append(stdout,
                         StatusLine("Error - Proxy port required but not provided.", 0, 0))
          /\ spc' = "exit"
          /\ UNCHANGED probe_futures
     ELSE IF ~subnet_valid
     THEN /\ stdout' = Append(stdout, StatusLine("Invalid Subnet", 0, 0))
          /\ spc' = "exit"
          /\ UNCHANGED probe_futures
     ELSE /\ stdout' = Append(stdout,
                         StatusLine("Stage 1: Port scanning", Len(hosts_to_scan), 0))
          /\ probe_futures' = [i \in 1 .. Len(hosts_to_scan) |->
               [host |-> hosts_to_scan[i], st |-> "pending", result |-> NoHost,
                seen |-> FALSE]]
          /\ spc' = "collect1"
  /\ UNCHANGED <<offscanner, args, subnet_valid, hosts_to_scan, profile, open_hosts,
                 enum_futures, processed_count, probe_count, enum_count, smb_calls,
                 temp_dirs>>

Running(fs) == {i \in 1 .. Len(fs) : fs[i].st = "running"}

\* a pool thread of stage 1 takes a task
ProbeStart(i) ==
  /\ i \in 1 .. Len(probe_futures) /\ probe_futures[i].st = "pending"
  /\ Cardinality(Running(probe_futures)) < probe_max_workers
  /\ probe_futures' = [probe_futures EXCEPT ![i].st = "running"]
  /\ probe_count' = [probe_count EXCEPT ![probe_futures[i].host] = @ + 1]
  /\ UNCHANGED <<offscanner, args, subnet_valid, hosts_to_scan, profile, spc, open_hosts,
                 enum_futures, processed_count, stdout, enum_count, smb_calls, temp_dirs>>

\* port_check returns
ProbeFinish(i) ==
  /\ i \in 1 .. Len(probe_futures) /\ probe_futures[i].st = "running"
  /\ probe_futures' = [probe_futures EXCEPT
       ![i].st = "done",
       ![i].result = PortCheck(probe_futures[i].host,
                               HostProfile(profile[probe_futures[i].host]))]
  /\ UNCHANGED <<offscanner, args, subnet_valid, hosts_to_scan, profile, spc, open_hosts,
                 enum_futures, processed_count, stdout, probe_count, enum_count,
                 smb_calls, temp_dirs>>

\* a bug: stage 1 is left at the first result
PoolCollectedFirst(fs) == \E j \in 1 .. Len(fs) : fs[j].seen

\* lines 108, 117: as_completed ends when every future of the pool was yielded
PoolCollected(fs) == \A j \in 1 .. Len(fs) : fs[j].seen

\* lines 108-110: one round of the loop over the finished probes
ProbeCollect(i) ==
  /\ spc = "collect1"
  /\ i \in 1 .. Len(probe_futures)
  /\ probe_futures[i].st = "done" /\ ~probe_futures[i].seen
  /\ probe_futures' = [probe_futures EXCEPT ![i].seen = TRUE]
  /\ open_hosts' = IF probe_futures[i].result # NoHost
                   THEN Append(open_hosts, probe_futures[i].result)
                   ELSE open_hosts
  /\ spc' = IF PoolCollected(probe_futures') THEN "stage2" ELSE "collect1"
  /\ UNCHANGED <<offscanner, args, subnet_valid, hosts_to_scan, profile, enum_futures,
                 processed_count, stdout, probe_count, enum_count, smb_calls, temp_dirs>>

\* lines 112-116: the futures of stage 2, one for every host of open_hosts
Stage2Submit ==
  /\ spc = "stage2"
  /\ stdout' = Append(stdout, StatusLine("Stage 2: Enumerating shares on", Len(open_hosts), 0))
  /\ enum_futures' = [i \in 1 .. Len(open_hosts) |->
       [host |-> open_hosts[i], st |-> "pending", result |-> None, seen |-> FALSE]]
  /\ processed_count' = 0
  /\ spc' = IF open_hosts = <<>> THEN "finish" ELSE "collect2"
  /\ UNCHANGED <<offscanner, args, subnet_valid, hosts_to_scan, profile, probe_futures,
                 open_hosts, probe_count, enum_count, smb_calls, temp_dirs>>

\* a pool thread of stage 2 takes a task
EnumStart(i) ==
  /\ i \in 1 .. Len(enum_futures) /\ enum_futures[i].st = "pending"
  /\ Cardinality(Running(enum_futures)) < enum_max_workers
  /\ enum_futures' = [enum_futures EXCEPT ![i].st = "running"]
  /\ enum_count' = [enum_count EXCEPT ![enum_futures[i].host] = @ + 1]
  /\ UNCHANGED <<offscanner, args, subnet_valid, hosts_to_scan, profile, spc, probe_futures,
                 open_hosts, processed_count, stdout, probe_count, smb_calls, temp_dirs>>

\* check_smb_host returns
EnumFinish(i) ==
  /\ i \in 1 .. Len(enum_futures) /\ enum_futures[i].st = "running"
  /\ LET r == CheckSmbHost(enum_futures[i].host, HostProfile(profile[enum_futures[i].host]),
                           args.quick_scan)
     IN  /\ enum_futures' = [enum_futures EXCEPT ![i].st = "done", ![i].result = r.result]
         /\ smb_calls' = smb_calls \cup r.calls
         /\ temp_dirs' = temp_dirs \cup r.left
  /\ UNCHANGED <<offscanner, args, subnet_valid, hosts_to_scan, profile, spc, probe_futures,
                 open_hosts, processed_count, stdout, probe_count, enum_count>>

\* a bug: processed and total change places
ProgressLineSwapped(processed, total) == StatusLine("Enumerating...", total, processed)

\* line 119
ProgressLine(processed, total) == StatusLine("Enumerating...", processed, total)

\* a bug: the result is printed before the progress of its host
RoundLinesResultFirst(processed, total, result) ==
  (IF result # None THEN <<ResultLine(result)>> ELSE <<>>)
    \o <<ProgressLine(processed, total)>>

\* lines 119-122: what one round of the loop prints
RoundLines(processed, total, result) ==
  <<ProgressLine(processed, total)>>
    \o (IF result # None THEN <<ResultLine(result)>> ELSE <<>>)

\* lines 117-122: one round of the loop over the finished enumerations
EnumCollect(i) ==
  /\ spc = "collect2"
  /\ i \in 1 .. Len(enum_futures)
  /\ enum_futures[i].st = "done" /\ ~enum_futures[i].seen
  /\ enum_futures' = [enum_futures EXCEPT ![i].seen = TRUE]
  /\ processed_count' = processed_count + 1
  /\ stdout' = stdout \o RoundLines(processed_count + 1, Len(open_hosts),
                                    enum_futures[i].result)
  /\ spc' = IF PoolCollected(enum_futures') THEN "finish" ELSE "collect2"
  /\ UNCHANGED <<offscanner, args, subnet_valid, hosts_to_scan, profile, probe_futures,
                 open_hosts, probe_count, enum_count, smb_calls, temp_dirs>>

\* line 124
MainFinish ==
  /\ spc = "finish"
  /\ stdout' = Append(stdout, StatusLine("Scanner process finished.", 0, 0))
  /\ spc' = "exit"
  /\ UNCHANGED <<offscanner, args, subnet_valid, hosts_to_scan, profile, probe_futures,
                 open_hosts, enum_futures, processed_count, probe_count, enum_count,
                 smb_calls, temp_dirs>>

\* SpecScan: one run of the scanner process
NextScan ==
  \/ MainStart \/ Stage2Submit \/ MainFinish
  \/ \E i \in 1 .. Len(probe_futures) : ProbeStart(i) \/ ProbeFinish(i) \/ ProbeCollect(i)
  \/ \E i \in 1 .. Len(enum_futures) : EnumStart(i) \/ EnumFinish(i) \/ EnumCollect(i)

SpecScan == InitScan /\ [][NextScan]_vars

(* ======================================================================= *)
(* What the claims speak of, stated from the share and not from the walk   *)
(* ======================================================================= *)
Tree == ShareTree(share)

\* the path of entry name in directory dir, rooted at "/" with "/" between segments
PathIn(dir, name) == (IF dir = Root THEN Root ELSE dir \o <<"/">>) \o name

IsFileEntry(e) == ~e.isDirectory /\ e.filename \notin {<<".">>, <<".", ".">>}

\* dir is P or lies below P
Under(path, P) ==
  \/ path = P
  \/ P = Root
  \/ Len(path) > Len(P) /\ SubSeq(path, 1, Len(P)) = P /\ path[Len(P) + 1] = "/"

\* the files of the directories that are reached when the listings of failing raise
FilesOutside(failing) ==
  UNION {{<<PathIn(d, Tree[d][i].filename), Tree[d][i].file_size>> :
            i \in {j \in 1 .. Len(Tree[d]) : IsFileEntry(Tree[d][j])}} :
         d \in {dd \in DOMAIN Tree : \A P \in failing : ~Under(dd, P)}}

Records(w) == {file_path_cache[w][i] : i \in 1 .. Len(file_path_cache[w])}

\* the walk of w ran to its end and stop() was not called before or during it
CompletedBuild(w) == walks[w] > 0 /\ ~InBuild(w) /\ stop_phase[w] \in {"none", "after"}

\* the number of "/"-separated directory names in a path: 0 for "/"
Depth(p) == IF p = Root THEN 0 ELSE Cardinality({i \in 1 .. Len(p) : p[i] = "/"})

\* the last segment of a path, and matching that ignores case
LastSegment(p) ==
  LET starts == {i \in 1 .. (Len(p) + 1) : \A j \in i .. Len(p) : p[j] # "/"}
      first == CHOOSE i \in starts : \A k \in starts : i <= k
  IN  [j \in 1 .. (Len(p) + 1 - first) |-> p[first + j - 1]]

MatchesIgnoringCase(kw, name) ==
  \E off \in 0 .. (Len(name) - Len(kw)) :
     \A j \in 1 .. Len(kw) : Lower(name[off + j]) = Lower(kw[j])

Matching(cache, kw) ==
  SelectSeq(cache, LAMBDA rec : MatchesIgnoringCase(kw, LastSegment(rec[1])))

Answers(w) == {emitted[w][i] : i \in 1 .. Len(emitted[w])}

(* ---- C1 ---- *)
\* C1: when no listing fails and stop() was not called before the walk ended, the cache
\* of a completed build holds exactly one (path, size) record for every file of the
\* share, with that file's size, and no record for a directory.
C1_IndexComplete ==
  \A w \in Workers :
    (CompletedBuild(w) /\ failPaths = {}) =>
       /\ is_cached[w]
       /\ Records(w) = FilesOutside({})
       /\ Len(file_path_cache[w]) = Cardinality(FilesOutside({}))
       /\ \A rec \in Records(w) : rec[1] \notin DOMAIN Tree

C1_Witness ==
  \E w \in Workers :
    /\ CompletedBuild(w) /\ failPaths = {} /\ share = 1
    /\ Len(file_path_cache[w]) = 4
    /\ <<<<"/", "b", "/", "c", "/", "f", "3">>, 33>> \in Records(w)


(* ---- C2 ---- *)
ListedTimes(w, p) == IF p \in DOMAIN list_count[w] THEN list_count[w][p] ELSE 0

\* the worker's thread takes up a trigger that was issued while a build was in progress
TakesLateTrigger(w) ==
  /\ wpc[w] = "loop" /\ queue[w] # <<>> /\ queue'[w] = Tail(queue[w])
  /\ Head(queue[w]).op \in {"start_background_caching", "do_search"}
  /\ Head(queue[w]).during

\* C2: whatever triggers are issued while a build is in progress, a worker walks the tree
\* once: it never enters a second walk, "/" is listed at most once, and taking up the
\* later trigger neither clears nor appends to the cache nor starts a walk.
C2_SingleBuild ==
  /\ [](\A w \in Workers : walks[w] <= 1 /\ ListedTimes(w, Root) <= 1)
  /\ [][\A w \in Workers :
          TakesLateTrigger(w) =>
            /\ file_path_cache'[w] = file_path_cache[w]
            /\ walks'[w] = walks[w]
            /\ ~InBuild(w)']_vars

C2_Witness ==
  \E w \in Workers :
    /\ \E e \in Answers(w) : e.during
    /\ walks[w] = 1 /\ ListedTimes(w, Root) = 1 /\ is_cached[w]

(* ---- C3 ---- *)
\* C3: after stop() was called while a build was in progress, is_cached is never set
\* for that build.
C3_CancelledNeverReady ==
  \A w \in Workers : stop_phase[w] = "during" => ~is_cached[w]

(* ---- C4 ---- *)
\* C4: if stop() is called when every task of the levels submitted so far has completed
\* and the next level is not yet submitted, no listing call is made for a path of the
\* next level or deeper.
C4_CancelBetweenLevels ==
  \A w \in Workers :
    stop_quiet[w] => \A p \in DOMAIN list_count[w] : Depth(p) < stop_levels[w]

C4_Witness ==
  \E w \in Workers :
    /\ stop_quiet[w] /\ stop_levels[w] = 1 /\ share = 1 /\ failPaths = {}
    /\ walks[w] = 1 /\ ~InBuild(w)
    /\ DOMAIN list_count[w] = {Root}

(* ---- C5 ---- *)
\* C5: when the listing of some directory P raises and the walk is not cancelled, the
\* build still ends Ready, the cache holds every file of the directories that are not P
\* or below P, each once, and no record whose path lies under P (when P is "/" the
\* cache is empty).
C5_PartialFailure ==
  \A w \in Workers :
    (CompletedBuild(w) /\ failPaths # {}) =>
       /\ is_cached[w]
       /\ Records(w) = FilesOutside(failPaths)
       /\ Len(file_path_cache[w]) = Cardinality(FilesOutside(failPaths))
       /\ \A rec \in Records(w) : \A P \in failPaths : ~Under(rec[1], P)

C5_Witness ==
  \E w \in Workers :
    /\ CompletedBuild(w) /\ share = 1 /\ failPaths = {<<"/", "d">>}
    /\ Len(file_path_cache[w]) = 3
    /\ <<<<"/", "b", "/", "c", "/", "f", "3">>, 33>> \in Records(w)


(* ---- C6 ---- *)
\* C6: a search taken up against a Ready index is answered with exactly the cache records
\* whose last path segment contains the keyword ignoring case, each once, in cache order;
\* a keyword that matches only a parent directory's name, or nothing, gives the empty list.
C6_SearchCorrect ==
  \A w \in Workers : \A e \in Answers(w) :
    e.kind = "ready" => e.results = Matching(file_path_cache[w], e.kw)

C6_Witness ==
  \E w \in Workers :
    /\ share = 1 /\ CompletedBuild(w) /\ failPaths = {}
    /\ \E e \in Answers(w) :
         /\ e.kind = "ready" /\ e.kw = <<"F", "2">>
         /\ e.results = <<<<<<"/", "b", "/", "f", "2">>, 22>>>>
    /\ \E e \in Answers(w) : e.kind = "ready" /\ e.kw = <<"b">> /\ e.results = <<>>

(* ---- C7 ---- *)
\* C7 as claimed: a search taken up while the indexer is Idle is answered with the empty
\* list.
C7_LazySearchAnswersEmpty ==
  \A w \in Workers : \A e \in Answers(w) : e.kind = "lazy" => e.results = <<>>

\* C7 as amended: a search taken up while the indexer is Idle runs the build inside that
\* call, sends no answer while the build runs, and then answers that same call with the
\* records of the cache it has just built whose base name matches the keyword.
C7_LazySearchAnswersAfterBuild ==
  \A w \in Workers :
    /\ (InBuild(w) /\ wpc[w] = "do_search") => emitted[w] = <<>>
    /\ \A e \in Answers(w) :
         e.kind = "lazy" =>
           /\ walks[w] = 1 /\ is_cached[w]
           /\ e.results = Matching(file_path_cache[w], e.kw)

C7_Witness ==
  \E w \in Workers :
    /\ share = 1 /\ failPaths = {} /\ stop_phase[w] = "none"
    /\ Len(emitted[w]) = 1
    /\ emitted[w][1].kind = "lazy" /\ emitted[w][1].kw = <<"F", "2">>
    /\ emitted[w][1].results = <<<<<<"/", "b", "/", "f", "2">>, 22>>>>

(* ---- C8 ---- *)
\* C8: a search issued while a build is in progress (on a worker that is not stopped) is
\* answered with the empty list and the 'indexing in progress' status.
C8_SearchDuringBuildAnswersBusy ==
  \A w \in Workers : \A e \in Answers(w) :
    (e.during /\ stop_phase[w] = "none") => (e.kind = "busy" /\ e.results = <<>>)

(* ---- C9 ---- *)
\* C9: every session connects through the proxy configuration its worker was created
\* with.
C9_ProxyIsolation == ~misrouted

(* ---- C10 ---- *)
\* C10: at no time are two threads inside a call on the same session.
C10_OneThreadPerSession ==
  \A w \in Workers : Cardinality(sess_ops[w]) <= 1

(* ---- C11 ---- *)
\* C11: the walk goes level by level: the futures of a pool are all of one depth, one
\* less than the number of levels submitted so far, and the next level is submitted
\* only when every future of the level before has finished and has had its result
\* taken by the loop, so no task of depth d+1 is submitted or started before that.
C11_LevelSynchronous ==
  /\ [](\A w \in Workers : \A i \in 1 .. Len(futures[w]) :
          Depth(futures[w][i].path) = levels[w] - 1)
  /\ [][\A w \in Workers :
          levels'[w] # levels[w] =>
            \A i \in 1 .. Len(futures[w]) :
               futures[w][i].st \in DoneStates /\ futures[w][i].seen]_vars

C11_Witness ==
  \E w \in Workers :
    /\ is_running[w] /\ levels[w] = 3 /\ stop_phase[w] = "none"
    /\ \E i \in 1 .. Len(futures[w]) :
         futures[w][i].st = "connected" /\ Depth(futures[w][i].path) = 2

(* ---- C12 ---- *)
\* the directories that the walk comes to when the listings of failing raise: those
\* with no failing directory above them
ReachableDirs(failing) ==
  {d \in DOMAIN Tree : \A P \in failing : d = P \/ ~Under(d, P)}

TreeDepth == CHOOSE n \in {Depth(d) : d \in DOMAIN Tree} : \A d \in DOMAIN Tree : Depth(d) <= n

\* C12: no path is ever submitted for listing twice and the walk never goes beyond
\* (depth of the tree + 1) levels; when a build has run to its end without stop(), the
\* paths that were submitted are exactly the directories reachable from "/" through
\* directories whose listing succeeded, each submitted once.
C12_VisitedOnce ==
  \A w \in Workers :
    /\ \A p \in DOMAIN submit_count[w] : submit_count[w][p] = 1
    /\ levels[w] <= TreeDepth + 1
    /\ CompletedBuild(w) => DOMAIN submit_count[w] = ReachableDirs(failPaths)

C12_Witness ==
  \E w \in Workers :
    /\ CompletedBuild(w) /\ share = 1 /\ failPaths = {<<"/", "d">>}
    /\ levels[w] = 3
    /\ DOMAIN submit_count[w] = {Root, <<"/", "b">>, <<"/", "d">>, <<"/", "b", "/", "c">>}

(* ---- C13 ---- *)
\* how many times each record occurs in a cache
RecordCounts(cache) ==
  [rec \in {cache[i] : i \in 1 .. Len(cache)} |->
     Cardinality({i \in 1 .. Len(cache) : cache[i] = rec})]

\* C13: two builds of the same share with the same failing paths, each run to its end
\* without stop(), end with the same records the same number of times, whatever the
\* orders in which the tasks of their levels finished.
C13_OrderIndependent ==
  \A w1 \in Workers : \A w2 \in Workers :
    (CompletedBuild(w1) /\ CompletedBuild(w2)) =>
       RecordCounts(file_path_cache[w1]) = RecordCounts(file_path_cache[w2])

\* two completed builds whose tasks finished in different orders
C13_Witness ==
  /\ CompletedBuild(1) /\ CompletedBuild(2)
  /\ Len(file_path_cache[1]) = 2
  /\ file_path_cache[1] # file_path_cache[2]

(* ---- C14 ---- *)
\* a step of a listing task of w: one of the futures of the pool changes its state
\* and the orchestrating loop stays where it is
TaskStep(w) ==
  /\ bpc'[w] = bpc[w] /\ Len(futures'[w]) = Len(futures[w])
  /\ \E i \in 1 .. Len(futures[w]) : futures'[w][i].st # futures[w][i].st

\* C14: a step of a listing task changes neither the cache nor the frontiers, nor any
\* other state that the loop or another task reads: the worker's fields and the default
\* proxy of the process stay as they are; only the task's own future changes.
C14_TasksWriteNoSharedState ==
  [][\A w \in Workers :
       TaskStep(w) =>
         /\ file_path_cache' = file_path_cache
         /\ next_level_dirs' = next_level_dirs /\ dirs_to_scan' = dirs_to_scan
         /\ objvars' = objvars
         /\ default_proxy' = default_proxy]_vars

(* ---- C15 ---- *)
IsPrefix(a, b) == Len(a) <= Len(b) /\ SubSeq(b, 1, Len(a)) = a

\* C15: a walk starts with an empty cache; while the walk goes on the cache changes
\* only by records put at its end; outside a walk it does not change; so the cache of
\* a build that followed another one holds only files that this build found on the share.
C15_CacheReplaced ==
  /\ [][\A w \in Workers :
          /\ walks'[w] # walks[w] => file_path_cache'[w] = <<>>
          /\ (walks'[w] = walks[w] /\ InBuild(w)) =>
                IsPrefix(file_path_cache[w], file_path_cache'[w])
          /\ (walks'[w] = walks[w] /\ ~InBuild(w)) =>
                file_path_cache'[w] = file_path_cache[w]]_vars
  /\ [](\A w \in Workers :
          (walks[w] > 0 /\ ~InBuild(w)) => Records(w) \subseteq FilesOutside(failPaths))

\* the second build of a run has ended, after a first one that found records
C15_Witness ==
  /\ CompletedBuild(1) /\ Len(file_path_cache[1]) = 2
  /\ CompletedBuild(2) /\ Len(file_path_cache[2]) = 2 /\ failPaths = {}

(* ======================================================================= *)
(* What the claims about the scanner speak of                              *)
(* ======================================================================= *)
\* the enumerations that have returned a result for their host
Reported == {i \in 1 .. Len(enum_futures) :
               enum_futures[i].st = "done" /\ enum_futures[i].result # None}

\* the share of host h that has this name
DeviceNamed(h, name) ==
  LET shares == HostProfile(profile[h]).shares
  IN  shares[CHOOSE k \in 1 .. Len(shares) : shares[k].name = name]

\* the lines of a tag written so far
Lines(tag) == {stdout[i] : i \in {k \in 1 .. Len(stdout) : stdout[k].tag = tag}}

EndsInDollar(name) == Len(name) > 0 /\ name[Len(name)] = "$"

C17_QuickScanNoProbe ==
  args.quick_scan =>
    /\ smb_calls = {}
    /\ temp_dirs = {}
    /\ \A i \in Reported :
         \A k \in 1 .. Len(enum_futures[i].result.shares) :
            enum_futures[i].result.shares[k].permissions = "N/A (Quick Scan)"

C17_Witness ==
  /\ args.quick_scan /\ spc = "exit"
  /\ \E ln \in Lines("RESULT") : Len(ln.result.shares) = 6

(* ---- C18 ---- *)
\* C18: while any liveness probe of stage 1 is unfinished, stage 2 has not begun: no
\* enumeration has been submitted or started and main() is still in its first loop.
C18_StageOrder ==
  (\E j \in 1 .. Len(probe_futures) : probe_futures[j].st # "done") =>
     /\ enum_futures = <<>>
     /\ spc = "collect1"
     /\ \A h \in 1 .. Len(enum_count) : enum_count[h] = 0

C18_Witness ==
  /\ Len(probe_futures) = 2
  /\ \E i \in 1 .. Len(enum_futures) : enum_futures[i].st = "running"

(* ---- C19 ---- *)
\* the scanner went through both stages and has ended
ScanEnded == spc = "exit" /\ probe_futures # <<>>

\* C19: no host is probed twice or enumerated twice, a host whose port is closed is
\* never enumerated, and when the scan has ended every host of the subnet was probed
\* once and exactly the hosts with an open port were enumerated, once each.
C19_Stage2IsLiveSet ==
  \A h \in 1 .. Len(hosts_to_scan) :
    /\ probe_count[h] <= 1 /\ enum_count[h] <= 1
    /\ ~HostProfile(profile[h]).port_open => enum_count[h] = 0
    /\ ScanEnded =>
         /\ probe_count[h] = 1
         /\ enum_count[h] = IF HostProfile(profile[h]).port_open THEN 1 ELSE 0

C19_Witness ==
  /\ ScanEnded
  /\ \E h \in 1 .. Len(hosts_to_scan) : profile[h] = "dead" /\ enum_count[h] = 0
  /\ \E h \in 1 .. Len(hosts_to_scan) : profile[h] = "mixed" /\ enum_count[h] = 1

(* ---- C20 ---- *)
\* C20: no RESULT line holds a share whose name ends in "$" or an empty list of
\* shares, and a host that has no share, or only shares whose names end in "$", has no
\* RESULT line.
C20_ResultFiltering ==
  /\ \A ln \in Lines("RESULT") :
       /\ ln.result.shares # <<>>
       /\ \A k \in 1 .. Len(ln.result.shares) : ~EndsInDollar(ln.result.shares[k].name)
  /\ \A h \in 1 .. Len(hosts_to_scan) :
       (\A k \in 1 .. Len(HostProfile(profile[h]).shares) :
           EndsInDollar(HostProfile(profile[h]).shares[k].name))
         => \A ln \in Lines("RESULT") : ln.result.host # h

C20_Witness ==
  /\ ScanEnded
  /\ \E h \in 1 .. Len(hosts_to_scan) : profile[h] = "adminonly" /\ enum_count[h] = 1
  /\ \E ln \in Lines("RESULT") :
       /\ profile[ln.result.host] = "mixed"
       /\ \E k \in 1 .. Len(ln.result.shares) : ln.result.shares[k].name = <<"a", "$", "b">>

(* ---- C21 ---- *)
\* host h answers on port 445, lets the scanner connect and list its shares, and has
\* a share whose name does not end in "$"
Qualifies(h) ==
  LET p == HostProfile(profile[h])
  IN  /\ p.port_open /\ p.connect = "ok"
      /\ \E k \in 1 .. Len(p.shares) : ~EndsInDollar(p.shares[k].name)

\* the RESULT lines written so far for host h
ResultCount(h) ==
  Cardinality({i \in 1 .. Len(stdout) : stdout[i].tag = "RESULT" /\ stdout[i].result.host = h})

\* C21: there are never two RESULT lines for one host, and when the scan has ended
\* there is exactly one for every host that qualifies and none for any other host.
C21_OneResultPerHost ==
  \A h \in 1 .. Len(hosts_to_scan) :
    /\ ResultCount(h) <= 1
    /\ ScanEnded => ResultCount(h) = IF Qualifies(h) THEN 1 ELSE 0

C21_Witness ==
  /\ ScanEnded /\ Len(hosts_to_scan) = MaxHosts
  /\ \A h \in 1 .. Len(hosts_to_scan) : profile[h] = "mixed" /\ ResultCount(h) = 1

(* ---- C22 ---- *)
\* host h answers on port 445 and then connect returns false, or connect or
\* listShares raises
EnumerationFails(h) ==
  HostProfile(profile[h]).port_open /\ HostProfile(profile[h]).connect \in {"refuse", "raise"}

FinishedLine == StatusLine("Scanner process finished.", 0, 0)

\* C22: a host whose enumeration fails gets no RESULT line and no call on a share;
\* the scanner goes on (some step of main() or of a task is possible until it has
\* exited), and when it has ended every live host was enumerated once, every other
\* host that qualifies has its RESULT line and the last line is the final status.
C22_FailureContained ==
  (\E f \in 1 .. Len(hosts_to_scan) : EnumerationFails(f)) =>
     /\ \A h \in 1 .. Len(hosts_to_scan) :
          /\ EnumerationFails(h) =>
               /\ ResultCount(h) = 0
               /\ \A c \in smb_calls : c.host # h
          /\ ScanEnded =>
               /\ HostProfile(profile[h]).port_open => enum_count[h] = 1
               /\ Qualifies(h) => ResultCount(h) = 1
     /\ ScanEnded => stdout[Len(stdout)] = FinishedLine
     /\ spc # "exit" => ENABLED NextScan

C22_Witness ==
  /\ ScanEnded /\ stdout[Len(stdout)] = FinishedLine
  /\ \E h \in 1 .. Len(hosts_to_scan) : profile[h] = "raise" /\ enum_count[h] = 1
  /\ \E h \in 1 .. Len(hosts_to_scan) : profile[h] = "mixed" /\ ResultCount(h) = 1

(* ---- C23 ---- *)
\* the progress lines written so far, in the order of writing
ProgressLines ==
  SelectSeq(stdout, LAMBDA ln : ln.tag = "STATUS" /\ ln.text = "Enumerating...")

LiveHosts == {h \in 1 .. Len(hosts_to_scan) : HostProfile(profile[h]).port_open}

\* C23: there is one progress line for every enumeration whose end main() has taken
\* notice of; the k-th of them says k of total, where total is the number of live
\* hosts and is never exceeded; when the scan has ended the last one says total of
\* total.
C23_Progress ==
  /\ Len(ProgressLines) = Cardinality({i \in 1 .. Len(enum_futures) : enum_futures[i].seen})
  /\ \A k \in 1 .. Len(ProgressLines) :
       /\ ProgressLines[k].a = k
       /\ ProgressLines[k].b = Cardinality(LiveHosts)
       /\ ProgressLines[k].a <= ProgressLines[k].b
  /\ ScanEnded => Len(ProgressLines) = Cardinality(LiveHosts)

C23_Witness ==
  /\ ScanEnded /\ Len(ProgressLines) = MaxHosts
  /\ ProgressLines[Len(ProgressLines)].a = MaxHosts

(* ---- C24 ---- *)
IsProgressLine(ln) == ln.tag = "STATUS" /\ ln.text = "Enumerating..."

ResultLinesOf(out) == SelectSeq(out, LAMBDA ln : ln.tag = "RESULT")

\* C24: every RESULT line stands directly behind a progress line; the step in which
\* main() takes notice of the end of an enumeration with a result writes that host's
\* progress line and directly behind it that host's RESULT line; no other step writes
\* a RESULT line, so none is kept for later.
C24_Streamed ==
  /\ [](\A i \in 1 .. Len(stdout) :
          stdout[i].tag = "RESULT" => (i > 1 /\ IsProgressLine(stdout[i - 1])))
  /\ [][\A i \in 1 .. Len(enum_futures) :
          (~enum_futures[i].seen /\ enum_futures'[i].seen /\ enum_futures[i].result # None)
            => /\ Len(stdout') = Len(stdout) + 2
               /\ SubSeq(stdout', 1, Len(stdout)) = stdout
               /\ IsProgressLine(stdout'[Len(stdout) + 1])
               /\ stdout'[Len(stdout) + 2] = ResultLine(enum_futures[i].result)]_vars
  /\ [][(\A i \in 1 .. Len(enum_futures) : enum_futures'[i].seen = enum_futures[i].seen)
          => ResultLinesOf(stdout') = ResultLinesOf(stdout)]_vars

\* a result was written while another enumeration was still running
C24_Witness ==
  /\ Len(ResultLinesOf(stdout)) = 1
  /\ \E i \in 1 .. Len(enum_futures) : enum_futures[i].st = "running"

(* ---- C27 ---- *)
ProxyErrorLine == StatusLine("Error - Proxy port required but not provided.", 0, 0)

\* C27: a scanner started without --no-proxy and without --proxy-port makes no
\* liveness probe and no enumeration and writes no RESULT line; it goes from its start
\* to its exit in one step, and what it has written then is the one STATUS error line.
C27_MissingProxyPort ==
  (~args.no_proxy /\ args.proxy_port = 0 /\ spc # "none") =>
     /\ spc \in {"start", "exit"}
     /\ probe_futures = <<>> /\ enum_futures = <<>>
     /\ \A h \in 1 .. Len(hosts_to_scan) : probe_count[h] = 0 /\ enum_count[h] = 0
     /\ smb_calls = {}
     /\ ResultLinesOf(stdout) = <<>>
     /\ spc = "exit" => stdout = <<ProxyErrorLine>>

C27_Witness ==
  /\ ~args.no_proxy /\ args.proxy_port = 0 /\ subnet_valid
  /\ spc = "exit" /\ stdout = <<ProxyErrorLine>>
  /\ \E h \in 1 .. Len(hosts_to_scan) : profile[h] = "mixed"

(* ---- BrowserWorker.browse_path: the list it returns for one directory ---- *)
MaxEntries == 5

\* ord(c) of the characters that occur in the names of the model
Ord(c) ==
  CASE c = "." -> 46
    [] c = "1" -> 49
    [] c = "4" -> 52
    [] c = "F" -> 70
    [] c = "Z" -> 90
    [] c = "b" -> 98
    [] c = "d" -> 100
    [] c = "f" -> 102

\* a < b for two str: the first differing character decides, a proper prefix is smaller
StrLess(a, b) ==
  \/ \E i \in 1 .. Len(a) :
       /\ i <= Len(b)
       /\ \A j \in 1 .. (i - 1) : a[j] = b[j]
       /\ Ord(a[i]) < Ord(b[i])
  \/ Len(a) < Len(b) /\ \A j \in 1 .. Len(a) : a[j] = b[j]

\* sorted(seq, key=...): ascending by the keys (keys[i] is the key of seq[i]), equal
\* keys keep their order
Sorted(seq, keys) ==
  LET rank(i) == 1 + Cardinality({j \in 1 .. Len(seq) :
                        \/ StrLess(keys[j], keys[i])
                        \/ keys[j] = keys[i] /\ j < i})
  IN  [r \in 1 .. Len(seq) |-> seq[CHOOSE i \in 1 .. Len(seq) : rank(i) = r]]

DirItem(d) == [name |-> d, type |-> "dir", size |-> 0]
FileItem(f) == [name |-> f.filename, type |-> "file", size |-> f.file_size]

\* a bug: the two lists are not sorted
BrowsePathUnsorted(connected, files) ==
  IF ~connected THEN <<>>
  ELSE LET kept == SelectSeq(files, LAMBDA f : f.isDirectory /\ ~IsDotEntry(f))
           dirs == [i \in 1 .. Len(kept) |-> kept[i].filename]
           regular_files == SelectSeq(files, LAMBDA f : ~f.isDirectory)
       IN  [i \in 1 .. Len(dirs) |-> DirItem(dirs[i])]
             \o [i \in 1 .. Len(regular_files) |-> FileItem(regular_files[i])]

\* browse_path, from the listing listPath returned (lines 643-650)
BrowsePath(connected, files) ==
  IF ~connected THEN <<>>
  ELSE LET kept == SelectSeq(files, LAMBDA f : f.isDirectory /\ ~IsDotEntry(f))
           names == [i \in 1 .. Len(kept) |-> kept[i].filename]
           dirs == Sorted(names, names)
           regs == SelectSeq(files, LAMBDA f : ~f.isDirectory)
           regular_files == Sorted(regs, [i \in 1 .. Len(regs) |-> regs[i].filename])
       IN  [i \in 1 .. Len(dirs) |-> DirItem(dirs[i])]
             \o [i \in 1 .. Len(regular_files) |-> FileItem(regular_files[i])]

\* the entries a server may return for a directory: names are unique in a directory,
\* "." and ".." are directories
BrowseEntries ==
  {Dot, DotDot, Entry(<<"d">>, TRUE, 0), Entry(<<"Z">>, TRUE, 0), Entry(<<"b">>, TRUE, 0),
   Entry(<<"f", "1">>, FALSE, 11), Entry(<<"F", "4">>, FALSE, 44)}

Listings ==
  UNION {{l \in [1 .. n -> BrowseEntries] : \A i, j \in 1 .. n : l[i] = l[j] => i = j} :
           n \in 0 .. MaxEntries}

\* browse_path has been called for a directory whose listing is `listing`
InitBrowse ==
  /\ InitBrowser /\ share = 2 /\ failPaths = {} /\ auto_index
  /\ ScanNotStarted /\ TabIdle
  /\ browse_connected \in BOOLEAN
  /\ listing \in Listings
  /\ browse_pc = "called"
  /\ browse_results = <<>>

BrowsePathReturn ==
  /\ browse_pc = "called"
  /\ browse_results' = BrowsePath(browse_connected, listing)
  /\ browse_pc' = "returned"
  /\ UNCHANGED <<appvars, scanvars, tabvars, browse_connected, listing>>

NextBrowse == BrowsePathReturn

SpecBrowse == InitBrowse /\ [][NextBrowse]_vars

\* C30: the list browse_path returns for a listing has every directory before every
\* file, the names of the directories strictly ascending and the names of the files
\* strictly ascending, no item named "." or "..", and exactly one item for every
\* other entry of the listing, carrying its name, its kind and (for a file) its size.
C30_BrowseOrder ==
  (browse_pc = "returned" /\ browse_connected) =>
    LET r == browse_results
        others == {i \in 1 .. Len(listing) : ~IsDotEntry(listing[i])}
        ItemOf(e) == IF e.isDirectory THEN DirItem(e.filename) ELSE FileItem(e)
    IN  /\ \A i, j \in 1 .. Len(r) : (i < j /\ r[i].type = "file") => r[j].type = "file"
        /\ \A i, j \in 1 .. Len(r) :
             (i < j /\ r[i].type = r[j].type) => StrLess(r[i].name, r[j].name)
        /\ \A i \in 1 .. Len(r) : r[i].name \notin {<<".">>, <<".", ".">>}
        /\ Len(r) = Cardinality(others)
        /\ \A i \in others :
             Cardinality({k \in 1 .. Len(r) : r[k] = ItemOf(listing[i])}) = 1

\* a listing with "." in it, two directories and two files, both out of order
C30_Witness ==
  /\ browse_pc = "returned" /\ browse_connected
  /\ \E i \in 1 .. Len(listing) : IsDotEntry(listing[i])
  /\ \E i, j \in 1 .. Len(listing) :
       /\ i < j /\ listing[i].isDirectory /\ listing[j].isDirectory
       /\ ~IsDotEntry(listing[i]) /\ ~IsDotEntry(listing[j])
       /\ StrLess(listing[j].filename, listing[i].filename)
  /\ \E i, j \in 1 .. Len(listing) :
       /\ i < j /\ ~listing[i].isDirectory /\ ~listing[j].isDirectory
       /\ StrLess(listing[j].filename, listing[i].filename)
  /\ \E i, j \in 1 .. Len(listing) : i < j /\ ~listing[i].isDirectory /\ listing[j].isDirectory

(* ======================================================================= *)
(* The text protocol between scanner_process.py and the scanner tab: what  *)
(* print writes for a line, and what handle_scanner_output makes of the    *)
(* text it reads.  Text is a str here, taken apart character by character. *)
(* ======================================================================= *)
RECURSIVE Str(_)
\* the str made of the characters of a name
Str(cs) == IF cs = <<>> THEN "" ELSE cs[1] \o Str(Tail(cs))

\* str(host) of the h-th address of the subnet
HostText(h) == "10.0.0." \o ToString(h)

\* json.dumps of one element of share_info
JsonShare(sh) ==
  "{\"name\": \"" \o Str(sh.name) \o "\", \"permissions\": \"" \o sh.permissions \o "\"}"

\* json.dumps(result) of the dict check_smb_host returns (line 65)
JsonDumps(result) ==
  "{\"host\": \"" \o HostText(result.host) \o "\", \"status\": \"" \o result.status
    \o "\", \"shares\": ["
    \o JoinStr([i \in 1 .. Len(result.shares) |-> JsonShare(result.shares[i])], ", ")
    \o "]}"

\* the text print writes for a line of the scanner (lines 90, 101, 104, 112, 119, 122, 124)
WireLine(ln) ==
  (IF ln.tag = "RESULT" THEN "RESULT:" \o JsonDumps(ln.result)
   ELSE IF ln.text = "Stage 1: Port scanning"
     THEN "STATUS:" \o ln.text \o " " \o ToString(ln.a) \o " hosts..."
   ELSE IF ln.text = "Stage 2: Enumerating shares on"
     THEN "STATUS:" \o ln.text \o " " \o ToString(ln.a) \o " live hosts..."
   ELSE IF ln.text = "Enumerating..."
     THEN "STATUS:" \o ln.text \o " (" \o ToString(ln.a) \o "/" \o ToString(ln.b) \o ")"
   ELSE "STATUS:" \o ln.text)
  \o "\n"

RECURSIVE WireText(_)
\* the text of a sequence of lines
WireText(lines) == IF lines = <<>> THEN "" ELSE WireLine(lines[1]) \o WireText(Tail(lines))

(* ---- str methods used by handle_scanner_output ---- *)
CharAt(s, i) == SubSeq(s, i, i)

\* s.find(c) + 1 for a character c: 0 when c is not in s
Find(s, c) ==
  IF \E i \in 1 .. Len(s) : CharAt(s, i) = c
  THEN CHOOSE i \in 1 .. Len(s) : CharAt(s, i) = c /\ \A j \in 1 .. (i - 1) : CharAt(s, j) # c
  ELSE 0

IsSpace(c) == c \in {" ", "\t", "\n", "\r"}

\* s.strip()
Strip(s) ==
  IF \A i \in 1 .. Len(s) : IsSpace(CharAt(s, i)) THEN ""
  ELSE LET first == CHOOSE i \in 1 .. Len(s) :
                      ~IsSpace(CharAt(s, i)) /\ \A j \in 1 .. (i - 1) : IsSpace(CharAt(s, j))
           last == CHOOSE i \in 1 .. Len(s) :
                     ~IsSpace(CharAt(s, i)) /\ \A j \in (i + 1) .. Len(s) : IsSpace(CharAt(s, j))
       IN  SubSeq(s, first, last)

\* s.startswith(prefix)
StartsWith(s, prefix) == Len(s) >= Len(prefix) /\ SubSeq(s, 1, Len(prefix)) = prefix

\* s.find(sub) + 1: 0 when sub is not in s
FindStr(s, sub) ==
  LET at(i) == SubSeq(s, i, i + Len(sub) - 1) = sub
  IN  IF \E i \in 1 .. (Len(s) - Len(sub) + 1) : at(i)
      THEN CHOOSE i \in 1 .. (Len(s) - Len(sub) + 1) : at(i) /\ \A j \in 1 .. (i - 1) : ~at(j)
      ELSE 0

RECURSIVE Remove(_, _)
\* s.replace(old, ""): every occurrence of old is removed, from the left
Remove(s, old) ==
  LET i == FindStr(s, old)
  IN  IF i = 0 THEN s
      ELSE SubSeq(s, 1, i - 1) \o Remove(SubSeq(s, i + Len(old), Len(s)), old)

(* ---- handle_scanner_output ---- *)
\* what check_smb_host returns for a host with the one share rw, readable only
OneShare ==
  [host |-> 1, status |-> "success",
   shares |-> <<[name |-> <<"r", "w">>, permissions |-> "READ"]>>]

\* what check_smb_host returns for a host whose one share has a tag in its name, and
\* the same dict with the share named name
TaggedResult == CheckSmbHost(1, HostProfile("tagged"), FALSE).result
Renamed(result, name) == [result EXCEPT !.shares[1].name = name]

\* the dicts whose json.dumps text JsonLoads can read back: what check_smb_host can
\* return for the hosts of the model, for a host with one share, and for a host with a
\* share named RESULT:x or x
JsonValues ==
  ({CheckSmbHost(h, HostProfile(k), q).result :
      h \in 1 .. MaxHosts, k \in HostKinds, q \in BOOLEAN} \ {None})
  \cup {OneShare, TaggedResult, Renamed(TaggedResult, <<"x">>)}

\* json.loads raised JSONDecodeError
JsonInvalid == [status |-> "JSONDecodeError"]

\* json.loads(text): the dict whose text it is, JsonInvalid for a text that is no JSON
JsonLoads(text) ==
  IF \E v \in JsonValues : JsonDumps(v) = text
  THEN CHOOSE v \in JsonValues : JsonDumps(v) = text
  ELSE JsonInvalid

StatusEvent(message) == [kind |-> "status", message |-> message]
ResultEvent(result) == [kind |-> "result", result |-> result]

\* the child rows appended under a host item (lines 1116-1119)
ShareRows(result) ==
  [i \in 1 .. Len(result.shares) |->
     <<"", Str(result.shares[i].name), result.shares[i].permissions>>]

\* lines 1112-1119: the host item found by findItems or a new one, and its new rows
AddResult(model, result) ==
  LET host == HostText(result.host)
  IN  IF \E r \in 1 .. Len(model) : model[r].host = host
      THEN LET r == CHOOSE r \in 1 .. Len(model) :
                      model[r].host = host /\ \A q \in 1 .. (r - 1) : model[q].host # host
           IN  [model EXCEPT ![r].rows = @ \o ShareRows(result)]
      ELSE Append(model, [host |-> host, rows |-> ShareRows(result)])

\* update_status (line 1165)
StatusMessage(message) == "Status: " \o message

\* a bug: a payload that is no JSON makes the handler give up the rest of what it read
HandleLineBadJsonDropsRest(st, line) ==
  IF line = "" THEN st
  ELSE IF StartsWith(line, "STATUS:")
    THEN LET message == Strip(Remove(line, "STATUS:"))
         IN  [st EXCEPT !.status_bar = StatusMessage(message),
                        !.shown = Append(@, StatusEvent(message))]
  ELSE IF StartsWith(line, "RESULT:")
    THEN LET result == JsonLoads(Strip(Remove(line, "RESULT:")))
         IN  IF result = JsonInvalid THEN [st EXCEPT !.scanner_buffer = ""]
             ELSE [st EXCEPT !.scan_model = AddResult(@, result),
                             !.shown = Append(@, ResultEvent(result))]
  ELSE st

\* lines 1108-1120: what one stripped line does to the status bar and to the results view
HandleLine(st, line) ==
  IF line = "" THEN st
  ELSE IF StartsWith(line, "STATUS:")
    THEN LET message == Strip(Remove(line, "STATUS:"))
         IN  [st EXCEPT !.status_bar = StatusMessage(message),
                        !.shown = Append(@, StatusEvent(message))]
  ELSE IF StartsWith(line, "RESULT:")
    THEN LET result == JsonLoads(Strip(Remove(line, "RESULT:")))
         IN  IF result = JsonInvalid THEN st
             ELSE [st EXCEPT !.scan_model = AddResult(@, result),
                             !.shown = Append(@, ResultEvent(result))]
  ELSE st

RECURSIVE ProcessLinesFlush(_)
\* a bug: what is left without a newline is handled as a line too
ProcessLinesFlush(st) ==
  LET newline_pos == Find(st.scanner_buffer, "\n")
  IN  IF newline_pos = 0
      THEN HandleLine([st EXCEPT !.scanner_buffer = ""], Strip(st.scanner_buffer))
      ELSE ProcessLinesFlush(
             HandleLine([st EXCEPT !.scanner_buffer = SubSeq(@, newline_pos + 1, Len(@))],
                        Strip(SubSeq(st.scanner_buffer, 1, newline_pos - 1))))

RECURSIVE ProcessLines(_)
\* the while loop of lines 1105-1120
ProcessLines(st) ==
  LET newline_pos == Find(st.scanner_buffer, "\n")
  IN  IF newline_pos = 0 THEN st
      ELSE ProcessLines(
             HandleLine([st EXCEPT !.scanner_buffer = SubSeq(@, newline_pos + 1, Len(@))],
                        Strip(SubSeq(st.scanner_buffer, 1, newline_pos - 1))))

\* handle_scanner_output when readAllStandardOutput returns data (line 1104)
HandleScannerOutput(st, data) ==
  ProcessLines([st EXCEPT !.scanner_buffer = @ \o data])

\* the fields of the window the handler works on
TabState ==
  [scanner_buffer |-> scanner_buffer, scan_model |-> scan_model,
   status_bar |-> status_bar, shown |-> shown]

(* ---- a stream of bytes read in chunks ---- *)
MaxLines == 2

\* a RESULT line that was cut short: its payload is no JSON
MalformedLine == "RESULT:{\"host\": \"10.\n"

\* lines a process can write to the pipe: a progress status, a result, a result cut
\* short, an empty line, a line that is neither, a status with blanks around it
WireLines ==
  {WireLine(StatusLine("Enumerating...", 1, 1)),
   WireLine(ResultLine(OneShare)),
   MalformedLine,
   "\n",
   "x\n",
   " STATUS: ok \r\n"}

WireStreams ==
  UNION {{JoinStr(ls, "") : ls \in [1 .. n -> WireLines]} : n \in 0 .. MaxLines}

\* a scanner process is running and `stream` is what it will have written
InitFraming ==
  /\ InitBrowser /\ share = 2 /\ failPaths = {} /\ auto_index
  /\ ScanNotStarted /\ NoBrowseCall
  /\ scanner_process = "QProcess"
  /\ exit_status = "Running"
  /\ read_pos = 0
  /\ scanner_buffer = ""
  /\ scan_model = <<>>
  /\ start_scan_enabled = FALSE
  /\ cancel_scan_enabled = TRUE
  /\ status_bar = StatusMessage("Starting scanner process...")
  /\ nscan = 1
  /\ stream \in WireStreams
  /\ delivered = 0
  /\ shown = <<>>

\* readyReadStandardOutput: the next n bytes of the stream are read and handled
ReadChunk ==
  \E n \in 1 .. (Len(stream) - delivered) :
  \E st \in {HandleScannerOutput(TabState, SubSeq(stream, delivered + 1, delivered + n))} :
    /\ delivered' = delivered + n
    /\ scanner_buffer' = st.scanner_buffer
    /\ scan_model' = st.scan_model
    /\ status_bar' = st.status_bar
    /\ shown' = st.shown
    /\ UNCHANGED <<appvars, scanvars, brwvars, scanner_process, exit_status, read_pos,
                   start_scan_enabled, cancel_scan_enabled, nscan, stream>>

NextFraming == ReadChunk

SpecFraming == InitFraming /\ [][NextFraming]_vars

\* the scanner tab when the first byte of a scan arrives (start_scan, lines 1078-1080)
FramingStart ==
  [scanner_buffer |-> "", scan_model |-> <<>>,
   status_bar |-> StatusMessage("Starting scanner process..."), shown |-> <<>>]

\* the part of the stream that has been read
BytesRead == SubSeq(stream, 1, delivered)

\* the number of newlines in a text
Newlines(text) == Cardinality({i \in 1 .. Len(text) : CharAt(text, i) = "\n"})

\* the text after the last newline of a text
LastPartial(text) ==
  LET ends == {i \in 1 .. Len(text) : CharAt(text, i) = "\n"}
  IN  IF ends = {} THEN text
      ELSE SubSeq(text, (CHOOSE i \in ends : \A j \in ends : j <= i) + 1, Len(text))

\* C28: however the bytes read so far were split into chunks, the events delivered, the
\* results view, the status bar and the buffer are those of reading the same bytes as
\* one chunk; there are at most as many events as newlines that have arrived; what is
\* buffered is the unterminated rest, and a read without a newline delivers no event.
C28_ChunkIndependent ==
  LET whole == HandleScannerOutput(FramingStart, BytesRead)
  IN  /\ shown = whole.shown
      /\ scan_model = whole.scan_model
      /\ status_bar = whole.status_bar
      /\ scanner_buffer = whole.scanner_buffer
      /\ Len(shown) <= Newlines(BytesRead)
      /\ scanner_buffer = LastPartial(BytesRead)
      /\ shown = HandleScannerOutput(FramingStart,
                   SubSeq(BytesRead, 1, Len(BytesRead) - Len(LastPartial(BytesRead)))).shown

\* a result has been delivered, and a read ended inside the line after it
C28_Witness ==
  /\ scanner_buffer # ""
  /\ delivered < Len(stream)
  /\ \E i \in 1 .. Len(shown) : shown[i].kind = "result"
  /\ StartsWith(stream, WireLine(ResultLine(OneShare)) \o "STATUS:")

WellFormedLine == WireLine(ResultLine(OneShare))

\* how often a line occurs in a text
Occurrences(text, line) == (Len(text) - Len(Remove(text, line))) \div Len(line)

MaxScans == 2
MaxTabHosts == 1

\* the hosts of the subnets scanned from the tab
TabHostKinds == {"dead", "mixed"}

UpdateStatus(st, message) ==
  [st EXCEPT !.status_bar = StatusMessage(message), !.shown = Append(@, StatusEvent(message))]

\* line 1132
FinalMessage(rowCount) ==
  IF rowCount > 0
  THEN "Scan finished. Found " \o ToString(rowCount) \o " host(s) with shares."
  ELSE "Scan finished. No accessible shares were found."

\* the window fields the handlers of the process signals work on
ProcState ==
  [scanner_buffer |-> scanner_buffer, scan_model |-> scan_model, status_bar |-> status_bar,
   shown |-> shown, scanner_process |-> scanner_process,
   start_scan_enabled |-> start_scan_enabled, cancel_scan_enabled |-> cancel_scan_enabled,
   raised |-> FALSE]

\* scanner_process.state() == QProcess.Running (lines 1076, 1100)
StateRunning == scanner_process = "QProcess" /\ exit_status = "Running"

\* start_scan with a proxy selection, a subnet text and the quick scan box; the subnet
\* holds the hosts given, and the interpreter starts or does not
StartScan ==
  /\ start_scan_enabled /\ nscan < MaxScans
  /\ ~StateRunning
  /\ nscan' = nscan + 1
  /\ scan_model' = <<>>
  /\ status_bar' = StatusMessage("Starting scanner process...")
  /\ shown' = <<StatusEvent("Starting scanner process...")>>
  /\ scanner_buffer' = ""
  /\ scanner_process' = "QProcess"
  /\ UNCHANGED <<appvars, brwvars, stream, delivered>>
  /\ \E selection \in {"None (Direct Scan)", "proxy", "unknown"}, quick \in BOOLEAN,
        valid \in BOOLEAN, n \in 1 .. MaxTabHosts, starts \in BOOLEAN :
       IF selection = "unknown"
       THEN /\ start_scan_enabled' = TRUE /\ cancel_scan_enabled' = FALSE
            /\ exit_status' = "NotRunning"
            /\ UNCHANGED <<scanvars, read_pos>>
       ELSE /\ start_scan_enabled' = FALSE /\ cancel_scan_enabled' = TRUE
            /\ exit_status' = "Starting"
            /\ read_pos' = 0
            /\ args' = [no_proxy |-> selection = "None (Direct Scan)",
                        proxy_port |-> IF selection = "proxy" THEN 1337 ELSE 0,
                        quick_scan |-> quick]
            /\ subnet_valid' = valid
            /\ hosts_to_scan' = [i \in 1 .. n |-> i]
            /\ profile' \in [1 .. n -> TabHostKinds]
            /\ spc' = IF starts THEN "start" ELSE "none"
            /\ probe_futures' = <<>>
            /\ open_hosts' = <<>>
            /\ enum_futures' = <<>>
            /\ processed_count' = 0
            /\ stdout' = <<>>
            /\ probe_count' = [i \in 1 .. n |-> 0]
            /\ enum_count' = [i \in 1 .. n |-> 0]
            /\ smb_calls' = {}
            /\ temp_dirs' = {}

\* the process runs: Qt leaves Starting
ProcessStarted ==
  /\ scanner_process = "QProcess" /\ exit_status = "Starting" /\ spc # "none"
  /\ exit_status' = "Running"
  /\ UNCHANGED <<appvars, scanvars, brwvars, scanner_process, read_pos, scanner_buffer,
                 scan_model, start_scan_enabled, cancel_scan_enabled, status_bar, nscan,
                 stream, delivered, shown>>

\* on_scanner_process_error (lines 1125-1127)
OnScannerProcessError(st) ==
  [UpdateStatus(st, "Error: Scanner process failed to start.") EXCEPT
     !.start_scan_enabled = TRUE, !.cancel_scan_enabled = FALSE, !.scanner_process = "None"]

\* the interpreter could not be started: errorOccurred(FailedToStart), no finished
StartFailed ==
  /\ scanner_process = "QProcess" /\ exit_status = "Starting" /\ spc = "none"
  /\ \E st \in {OnScannerProcessError(ProcState)} :
       /\ status_bar' = st.status_bar
       /\ shown' = st.shown
       /\ start_scan_enabled' = st.start_scan_enabled
       /\ cancel_scan_enabled' = st.cancel_scan_enabled
       /\ scanner_process' = st.scanner_process
  /\ exit_status' = "FailedToStart"
  /\ UNCHANGED <<appvars, scanvars, brwvars, read_pos, scanner_buffer, scan_model, nscan,
                 stream, delivered>>

\* the lines of the scanner from line number a to line number b, as text
Output(a, b) == WireText(SubSeq(stdout, a, b))

\* readyReadStandardOutput while the process runs: handle_scanner_output reads the
\* lines that have arrived
ReadOutput ==
  /\ StateRunning
  /\ \E n \in (read_pos + 1) .. Len(stdout) :
       /\ read_pos' = n
       /\ \E st \in {HandleScannerOutput(TabState, Output(read_pos + 1, n))} :
            /\ scanner_buffer' = st.scanner_buffer
            /\ scan_model' = st.scan_model
            /\ status_bar' = st.status_bar
            /\ shown' = st.shown
  /\ UNCHANGED <<appvars, scanvars, brwvars, scanner_process, exit_status,
                 start_scan_enabled, cancel_scan_enabled, nscan, stream, delivered>>

Alive == spc \notin {"none", "exit", "killed", "crashed"}

\* stop_scan (lines 1100-1101), called by the cancel button and by closeEvent; kill()
\* ends the process at once.  A call that would change nothing is left out.
StopScan ==
  /\ scanner_process # "None" \/ ~start_scan_enabled \/ cancel_scan_enabled
  /\ IF StateRunning
     THEN /\ spc' = IF Alive THEN "killed" ELSE spc
          /\ UNCHANGED <<start_scan_enabled, cancel_scan_enabled>>
     ELSE /\ start_scan_enabled' = TRUE /\ cancel_scan_enabled' = FALSE
          /\ UNCHANGED spc
  /\ UNCHANGED <<appvars, brwvars, args, subnet_valid, hosts_to_scan, profile,
                 probe_futures, open_hosts, enum_futures, processed_count, stdout,
                 probe_count, enum_count, smb_calls, temp_dirs, scanner_process,
                 exit_status, read_pos, scanner_buffer, scan_model, status_bar, nscan,
                 stream, delivered, shown>>

\* the process is ended from outside (a signal), at any point of its run
Crash ==
  /\ Alive
  /\ spc' = "crashed"
  /\ UNCHANGED <<appvars, tabvars, brwvars, args, subnet_valid, hosts_to_scan, profile,
                 probe_futures, open_hosts, enum_futures, processed_count, stdout,
                 probe_count, enum_count, smb_calls, temp_dirs>>

\* handle_scanner_output as on_scanner_finished calls it (line 1130): without a
\* QProcess the read raises and the slot is left
LateRead(st) ==
  IF Strip(st.scanner_buffer) = "" THEN st
  ELSE IF st.scanner_process = "None" THEN [st EXCEPT !.raised = TRUE]
  ELSE st

\* on_scanner_finished (lines 1129-1136); normal is exitStatus() == NormalExit
OnScannerFinished(st0, normal) ==
  LET st == LateRead(st0)
  IN  IF st.raised THEN st
      ELSE [(IF st.scanner_process # "None" /\ normal
             THEN UpdateStatus(st, FinalMessage(Len(st.scan_model)))
             ELSE IF st.cancel_scan_enabled
               THEN UpdateStatus(st, "Scan cancelled or failed.")
             ELSE st)
            EXCEPT !.start_scan_enabled = TRUE, !.cancel_scan_enabled = FALSE,
                   !.scanner_process = "None"]

\* what the three signals of an ended process do, one after the other
OnProcessEnded(st, data, normal) ==
  LET read == IF data = "" THEN st
              ELSE [k \in DOMAIN st |->
                      IF k \in DOMAIN TabState
                      THEN HandleScannerOutput([f \in DOMAIN TabState |-> st[f]], data)[k]
                      ELSE st[k]]
      told == IF normal THEN read ELSE OnScannerProcessError(read)
  IN  OnScannerFinished(told, normal)

\* Qt finds the process ended
ProcessFinished ==
  /\ StateRunning /\ spc \in {"exit", "killed", "crashed"}
  /\ \E st \in {OnProcessEnded(ProcState, Output(read_pos + 1, Len(stdout)), spc = "exit")} :
       /\ scanner_buffer' = st.scanner_buffer
       /\ scan_model' = st.scan_model
       /\ status_bar' = st.status_bar
       /\ shown' = st.shown
       /\ scanner_process' = st.scanner_process
       /\ start_scan_enabled' = st.start_scan_enabled
       /\ cancel_scan_enabled' = st.cancel_scan_enabled
  /\ read_pos' = Len(stdout)
  /\ exit_status' = IF spc = "exit" THEN "NormalExit" ELSE "CrashExit"
  /\ UNCHANGED <<appvars, scanvars, brwvars, nscan, stream, delivered>>

\* the scanner tab, its process and what the process does
NextTab ==
  \/ StartScan \/ ProcessStarted \/ StartFailed \/ ReadOutput \/ StopScan \/ Crash
  \/ ProcessFinished
  \/ Alive /\ NextScan

SpecTab == Init /\ [][NextTab]_vars

\* the status events with which the window reports a scan as finished
IsFinishedMessage(e) ==
  e.kind = "status" /\ StartsWith(e.message, "Scan finished.")

\* C25: when the scanner process has ended normally, the last line it wrote is
\* 'Scanner process finished.', every line it wrote has been handled, and the last
\* status event of the window is the 'Scan finished' message, after every result.
C25_FinalSummary ==
  exit_status = "NormalExit" =>
    /\ stdout # <<>> /\ stdout[Len(stdout)] = FinishedLine
    /\ read_pos = Len(stdout) /\ scanner_buffer = ""
    /\ shown # <<>> /\ IsFinishedMessage(shown[Len(shown)])
    /\ Len(SelectSeq(shown, LAMBDA e : e.kind = "result")) = Len(ResultLinesOf(stdout))

\* C26: when the scanner process was killed or crashed, the window has not reported
\* the scan as finished, its status is 'Scan cancelled or failed.', the start button is
\* enabled and no scanner process is recorded.
C26_AbnormalIncomplete ==
  exit_status = "CrashExit" =>
    /\ \A i \in 1 .. Len(shown) : ~IsFinishedMessage(shown[i])
    /\ status_bar = StatusMessage("Scan cancelled or failed.")
    /\ start_scan_enabled
    /\ scanner_process = "None"

(* ======================================================================= *)
(* The cache and its connection                                            *)
(* ======================================================================= *)
\* SpecRevisit: two connections to the share with two sibling directories; the user
\* searches in both and disconnects when no walk is running; no listing fails
InitRevisit == Init /\ share = 3 /\ failPaths = {}

NextRevisit ==
  \/ NextTwoBuilds
  \/ \E kw \in Keywords : StartSearch(kw)
  \/ OnSearchFinished
  \/ \E w \in Workers : SlotSearch(w)

SpecRevisit == InitRevisit /\ [][NextRevisit]_vars

\* os.path.dirname of a path of the share
Dirname(p) == IF RFindSlash(p) <= 1 THEN Root ELSE SubSeq(p, 1, RFindSlash(p) - 1)

\* a worker whose thread has not yet reached its event loop
Starting(w) == wpc[w] \in {"run_browser", "run_connect", "run_browse"}

\* the records the searches of connection w have returned
Returned(w) ==
  UNION {{emitted[w][k].results[r] : r \in 1 .. Len(emitted[w][k].results)} :
           k \in 1 .. Len(emitted[w])}

\* C31: the cache does not outlive its connection. A connection's worker starts Idle
\* (not Ready, not Building) with an empty cache, and every record a search of a
\* connection returns was listed by a task of that same connection.
C31_CachePerConnection ==
  \A w \in Workers :
    /\ Starting(w) => ~is_cached[w] /\ ~is_caching[w] /\ file_path_cache[w] = <<>>
    /\ \A rec \in Returned(w) : Dirname(rec[1]) \in DOMAIN list_count[w]

\* the second connection, made after the first one had built its index and was
\* disconnected, has answered a search with records
C31_Witness ==
  /\ nconn = 2 /\ is_cached[1] /\ file_path_cache[1] # <<>> /\ ~is_running[1]
  /\ Returned(2) # {}

(* ======================================================================= *)
(* The worker pools                                                        *)
(* ======================================================================= *)
\* SpecPools: the application connects to the wide share and builds its index; after
\* that a scanner process runs on a subnet with more hosts than stage 1 has threads,
\* of which more have port 445 open than stage 2 has threads.
\* A pool's threads take the tasks in the order of submission. The tasks of one pool
\* are alike, so of the tasks under way the one taken first goes on first, and the
\* results are collected in that order too; the scanner's loops collect a result
\* before the next task ends.
First(S) == IF S = {} THEN {} ELSE {CHOOSE i \in S : \A j \in S : i <= j}
Pending(fs) == {i \in 1 .. Len(fs) : fs[i].st = "pending"}
Unseen(fs) == {i \in 1 .. Len(fs) : ~fs[i].seen}
Uncollected(fs) == {i \in 1 .. Len(fs) : fs[i].st = "done" /\ ~fs[i].seen}

InitPools ==
  /\ share = WideShare /\ failPaths = {} /\ auto_index = TRUE
  /\ InitWorkers /\ ScanNotStarted /\ TabIdle /\ NoBrowseCall

WideSubnet == [i \in 1 .. probe_max_workers + MaxExtra |-> i]
WideProfile ==
  [i \in 1 .. Len(WideSubnet) |-> IF i <= enum_max_workers + MaxExtra THEN "noshares" ELSE "dead"]

\* the scanner process is started on the wide subnet, once the index is built
StartWideScan ==
  /\ spc = "none" /\ walks[1] > 0 /\ ~InBuild(1)
  /\ args' = [no_proxy |-> TRUE, proxy_port |-> 0, quick_scan |-> TRUE]
  /\ subnet_valid' = TRUE
  /\ hosts_to_scan' = WideSubnet
  /\ profile' = WideProfile
  /\ spc' = "start"
  /\ probe_count' = [i \in 1 .. Len(WideSubnet) |-> 0]
  /\ enum_count' = [i \in 1 .. Len(WideSubnet) |-> 0]
  /\ UNCHANGED <<offscanner, probe_futures, open_hosts, enum_futures, processed_count,
                 stdout, smb_calls, temp_dirs>>

WideIndexStep(w) ==
  \/ RunBrowserStart(w) \/ RunBrowserConnect(w) \/ RunBrowserBrowse(w)
  \/ SlotStartCaching(w)
  \/ BuildWhile(w) \/ BuildSubmit(w) \/ BuildAssign(w) \/ BuildReturn(w)
  \/ \E i \in First(Unseen(futures[w])) : BuildCollect(w, i)
  \/ \E i \in First(Pending(futures[w])) : TaskStart(w, i)
  \/ \E i \in First(Executing(futures[w])) :
       TaskSetProxy(w, i) \/ TaskConnect(w, i) \/ TaskList(w, i)

WideScanStep ==
  \/ MainStart \/ Stage2Submit \/ MainFinish
  \/ \E i \in First(Pending(probe_futures)) : ProbeStart(i)
  \/ \E i \in First(Running(probe_futures)) :
       Uncollected(probe_futures) = {} /\ ProbeFinish(i)
  \/ \E i \in First(Unseen(probe_futures)) : ProbeCollect(i)
  \/ \E i \in First(Pending(enum_futures)) : EnumStart(i)
  \/ \E i \in First(Running(enum_futures)) :
       Uncollected(enum_futures) = {} /\ EnumFinish(i)
  \/ \E i \in First(Unseen(enum_futures)) : EnumCollect(i)

NextPools ==
  \/ ClickConnectFirst \/ OnConnectionSuccess \/ OnConnectionSuccessEnd
  \/ WideIndexStep(1)
  \/ StartWideScan
  \/ WideScanStep

SpecPools == InitPools /\ [][NextPools]_vars

\* C32: bounded worker pools. At no time are more than 20 listing tasks executing in a
\* build, more than 100 liveness probes executing in stage 1, or more than 25 host
\* enumerations executing in stage 2, however many tasks were submitted.
C32_BoundedPools ==
  /\ \A w \in Workers : Cardinality(Executing(futures[w])) <= max_workers
  /\ Cardinality(Running(probe_futures)) <= probe_max_workers
  /\ Cardinality(Running(enum_futures)) <= enum_max_workers

\* a build had a level of more directories than the pool has threads, stage 1 had more
\* probes than threads, and stage 2 has all its threads busy and a task waiting
C32_Witness ==
  /\ Len(futures[1]) > max_workers /\ walks[1] > 0 /\ ~InBuild(1)
  /\ Len(probe_futures) > probe_max_workers
  /\ Cardinality(Running(enum_futures)) = enum_max_workers
  /\ Pending(enum_futures) # {}

\* the listing pool has all its threads busy and a task waiting
C32_ListingPoolFull ==
  \E w \in Workers : Cardinality(Executing(futures[w])) = max_workers /\ Pending(futures[w]) # {}

\* the pool of stage 1 has all its threads busy and a task waiting
C32_ProbePoolFull ==
  Cardinality(Running(probe_futures)) = probe_max_workers /\ Pending(probe_futures) # {}

(* ======================================================================= *)
(* Searching a Ready index                                                 *)
(* ======================================================================= *)
\* the worker thread of w takes up a queued call of do_search
TakesSearch(w) ==
  /\ wpc[w] = "loop" /\ queue[w] # <<>> /\ Head(queue[w]).op = "do_search"
  /\ queue'[w] = Tail(queue[w])

\* C33: a search on a Ready index is read-only. do_search taken up on a connected
\* worker whose index is Ready starts no walk, submits no task, makes no listing call,
\* uses no session, leaves the cache, is_cached and is_caching as they were, and
\* answers at once.
C33_ReadySearchReadOnly ==
  [][\A w \in Workers :
       TakesSearch(w) /\ is_cached[w] /\ ~is_caching[w] /\ smb_connection[w] # "none"
       => /\ file_path_cache'[w] = file_path_cache[w]
          /\ is_cached'[w] /\ ~is_caching'[w]
          /\ walks'[w] = walks[w] /\ levels'[w] = levels[w]
          /\ futures'[w] = futures[w] /\ bpc'[w] = bpc[w]
          /\ list_count'[w] = list_count[w] /\ submit_count'[w] = submit_count[w]
          /\ sess_ops'[w] = sess_ops[w]
          /\ wpc'[w] = "loop"
          /\ Len(emitted'[w]) = Len(emitted[w]) + 1]_vars

\* a search was answered from a Ready index, with matches
C33_Witness ==
  \E w \in Workers : \E k \in 1 .. Len(emitted[w]) :
    /\ emitted[w][k].kind = "ready" /\ emitted[w][k].results # <<>>
    /\ is_cached[w] /\ ~is_caching[w] /\ file_path_cache[w] # <<>>

(* ======================================================================= *)
(* The Building flag                                                       *)
(* ======================================================================= *)
\* C34: the Building guard is never left stuck. is_caching is true only while the
\* worker is inside a walk; once start_background_caching or do_search has returned
\* (the worker's thread is back in its event loop or has ended) is_caching is false,
\* after a walk that ran to its end and after a cancelled one, and no search is
\* answered as rejected by a build.
C34_BuildingFlagReleased ==
  \A w \in Workers :
    /\ is_caching[w] => InBuild(w) /\ bpc[w] # "none"
    /\ wpc[w] \in {"loop", "finished"} => ~is_caching[w]
    /\ \A k \in 1 .. Len(emitted[w]) : emitted[w][k].kind # "busy"

\* a walk was cancelled and its caller has returned; a search arrived after that
C34_Witness ==
  \E w \in Workers :
    /\ stop_phase[w] = "during" /\ walks[w] > 0
    /\ wpc[w] \in {"loop", "finished"} /\ ~is_caching[w]

\* a walk ran to its end, and a later search was answered from its index
C34_WitnessLater ==
  \E w \in Workers : \E k \in 1 .. Len(emitted[w]) :
    emitted[w][k].kind = "ready" /\ walks[w] = 1 /\ ~is_caching[w]

(* ======================================================================= *)
(* Searches and their answers                                              *)
(* ======================================================================= *)
\* the calls of do_search of worker w: still queued, under way, answered
QueuedSearches(w) == Cardinality({i \in 1 .. Len(queue[w]) : queue[w][i].op = "do_search"})
SearchUnderWay(w) == IF wpc[w] = "do_search" THEN 1 ELSE 0
Answered(w) == Len(emitted[w])

RECURSIVE SearchesUpTo(_)
SearchesUpTo(n) ==
  IF n = 0 THEN 0
  ELSE QueuedSearches(n) + SearchUnderWay(n) + Answered(n) + SearchesUpTo(n - 1)

\* the search_finished events in the GUI's queue
AnswersInFlight == Cardinality({i \in 1 .. Len(inbox) : inbox[i].sig = "search_finished"})

\* the GUI takes the answer of the worker it is connected through
TakesOwnAnswer ==
  /\ Delivered("search_finished") /\ inbox' = Tail(inbox)
  /\ Head(inbox).w = browser_worker

\* SpecAnswer: Spec, with a worker thread, its pool threads and the GUI's event loop that
\* go on running
SpecAnswer ==
  /\ Init /\ [][Next]_vars
  /\ \A w \in Workers : WF_vars(IndexStep(w))
  /\ WF_vars(OnSearchFinished)

\* C35: every search request is answered exactly once. Every call of do_search that
\* start_search queued is still queued, under way, or has emitted exactly one
\* search_finished; an answer made without a result set (Building, error) is empty;
\* a call that was taken up is answered; and the answer, when the GUI takes it,
\* enables the search control again.
C35_AnsweredOnce ==
  /\ [](/\ nsearch = SearchesUpTo(MaxConn)
        /\ \A w \in Workers : \A k \in 1 .. Len(emitted[w]) :
             emitted[w][k].kind \in {"busy", "error"} => emitted[w][k].results = <<>>)
  /\ [][TakesOwnAnswer => search_enabled']_vars
  /\ \A w \in Workers : (wpc[w] = "do_search") ~> (wpc[w] = "loop")

\* two searches were made and answered, and the search control is enabled again
C35_Witness ==
  /\ nsearch = 2 /\ browser_worker = 1 /\ Answered(1) = 2
  /\ emitted[1][1].kind = "lazy" /\ inbox = <<>> /\ search_enabled

(* ======================================================================= *)
(* The sessions of the listing tasks                                       *)
(* ======================================================================= *)
\* the tasks of the last level of w whose session is open
OpenSessions(w) == {i \in 1 .. Len(futures[w]) : futures[w][i].conn = "open"}

\* C36: sessions opened by indexer tasks are always closed. A listing task that has
\* ended, with a result or with an exception, has no session open, so no indexer
\* session is open once a build has finished.
C36_SessionsClosed ==
  \A w \in Workers :
    /\ \A i \in 1 .. Len(futures[w]) :
         futures[w][i].st \in DoneStates => futures[w][i].conn # "open"
    /\ walks[w] > 0 /\ ~InBuild(w) => OpenSessions(w) = {}

(* ======================================================================= *)
(* Cancellation inside a level                                             *)
(* ======================================================================= *)
\* SpecCancel: one connection to the share with two sibling directories, the index built
\* on connect; the user disconnects at any moment, also between the flag test of the
\* orchestrating loop and the handling of the result it was about to handle
InitCancel == Init /\ share = 3 /\ failPaths = {} /\ auto_index

CancelStep(w) ==
  \/ RunBrowserStart(w) \/ RunBrowserConnect(w) \/ RunBrowserBrowse(w)
  \/ SlotStartCaching(w) \/ ThreadExit(w)
  \/ BuildWhile(w) \/ BuildSubmit(w) \/ BuildAssign(w) \/ BuildReturn(w)
  \/ \E i \in 1 .. Len(futures[w]) :
       \/ BuildCollectTest(w, i) \/ BuildCollectExtend(w, i)
       \/ TaskStart(w, i) \/ TaskSetProxy(w, i) \/ TaskConnect(w, i) \/ TaskList(w, i)

NextCancel ==
  \/ ClickConnectFirst \/ ClickDisconnect \/ WaitReturns
  \/ OnConnectionSuccess \/ OnConnectionSuccessEnd \/ OnConnectionFailed
  \/ \E w \in Workers : CancelStep(w)

SpecCancel == InitCancel /\ [][NextCancel]_vars

\* stop() has been called on w
Cancelled(w) == ~is_running[w]

\* after stop(), a task that a pool thread takes up returns empty: it is skipped, has
\* no session, and no listing call is made
SkipsUnstarted(w) ==
  \A i \in 1 .. Len(futures[w]) :
    (i <= Len(futures'[w]) /\ futures[w][i].st = "pending" /\ futures'[w][i].st # "pending")
    => /\ futures'[w][i].st = "skipped" /\ futures'[w][i].conn = "none"
       /\ list_count'[w] = list_count[w]
       /\ TaskResult(futures'[w][i]) = [files |-> <<>>, subdirs |-> <<>>]

\* C37 as stated: once stop() has been called, a task that has not started opens no
\* session and makes no listing call, and the orchestrating loop appends no further
\* records to the cache.
C37_CancelInsideLevel ==
  [][\A w \in Workers :
       Cancelled(w) => SkipsUnstarted(w) /\ file_path_cache'[w] = file_path_cache[w]]_vars

\* C37, amended: once stop() has been called, a task that has not started opens no
\* session and makes no listing call; the orchestrating loop takes up no further result,
\* and the cache grows only by the one result whose flag test came before stop().
C37_CancelObserved ==
  [][\A w \in Workers :
       Cancelled(w) =>
         /\ SkipsUnstarted(w)
         /\ bpc'[w] = "extend" => bpc[w] = "extend"
         /\ file_path_cache'[w] # file_path_cache[w] =>
              /\ bpc[w] = "extend" /\ bpc'[w] # "extend"
              /\ \E i \in 1 .. Len(futures[w]) :
                   /\ futures[w][i].taken /\ ~futures[w][i].seen
                   /\ file_path_cache'[w] = file_path_cache[w] \o TaskResult(futures[w][i]).files]_vars

\* stop() came inside the second level: one task was skipped, and of the other, which
\* had listed its directory, the records are not in the cache
C37_Witness ==
  \E w \in Workers :
    /\ Cancelled(w) /\ walks[w] = 1 /\ ~InBuild(w) /\ levels[w] = 2
    /\ \E i, j \in 1 .. Len(futures[w]) :
         futures[w][i].st = "skipped" /\ futures[w][j].st = "ok" /\ ~futures[w][j].seen
    /\ file_path_cache[w] = <<>>

(* ======================================================================= *)
(* The write probe                                                         *)
(* ======================================================================= *)
\* the shares of host on which a temporary directory of the write probe remains
LeftOn(host) == {d[2] : d \in {t \in temp_dirs : t[1] = host}}

\* C38: the write probe leaves nothing behind. When check_smb_host has finished with a
\* host, no temporary directory created by its write probe remains on a share of that
\* host, whether createDirectory and deleteDirectory succeeded or failed.
C38_ProbeLeavesNothing ==
  \A i \in 1 .. Len(enum_futures) :
    enum_futures[i].st = "done" => LeftOn(enum_futures[i].host) = {}

(* ======================================================================= *)
(* A line of the scanner, from print to the scanner tab                    *)
(* ======================================================================= *)
\* the lines main() can print: its status lines, and a RESULT line for what
\* check_smb_host returns for a host of the model or for a host with a tagged share
EmittedLines ==
  {StatusLine("Error - Proxy port required but not provided.", 0, 0),
   StatusLine("Invalid Subnet", 0, 0),
   StatusLine("Scanner process finished.", 0, 0)}
  \cup {StatusLine("Stage 1: Port scanning", n, 0) : n \in 1 .. MaxHosts}
  \cup {StatusLine("Stage 2: Enumerating shares on", n, 0) : n \in 0 .. MaxHosts}
  \cup {StatusLine("Enumerating...", a, MaxHosts) : a \in 1 .. MaxHosts}
  \cup {ResultLine(v) : v \in
          ({CheckSmbHost(h, HostProfile(k), q).result :
              h \in 1 .. MaxHosts, k \in HostKinds \cup {"tagged"}, q \in BOOLEAN} \ {None})}

\* SpecRoundTrip: the scanner has printed one line, the tab reads it in chunks
InitRoundTrip ==
  /\ InitBrowser /\ share = 2 /\ failPaths = {} /\ auto_index
  /\ ScanNotStarted /\ NoBrowseCall
  /\ scanner_process = "QProcess"
  /\ exit_status = "Running"
  /\ read_pos = 0
  /\ scanner_buffer = ""
  /\ scan_model = <<>>
  /\ start_scan_enabled = FALSE
  /\ cancel_scan_enabled = TRUE
  /\ status_bar = StatusMessage("Starting scanner process...")
  /\ nscan = 1
  /\ stream \in {WireLine(ln) : ln \in EmittedLines}
  /\ delivered = 0
  /\ shown = <<>>

SpecRoundTrip == InitRoundTrip /\ [][NextFraming]_vars

\* the text of a line after its tag and before its newline
Payload(text) == SubSeq(text, Len("STATUS:") + 1, Len(text) - 1)

\* what the tab is to make of a line: the status text as printed, or the host and its
\* (share name, permissions) pairs
Decoded(ln) ==
  IF ln.tag = "RESULT"
  THEN [shown |-> <<ResultEvent(ln.result)>>,
        scan_model |-> <<[host |-> HostText(ln.result.host),
                          rows |-> [i \in 1 .. Len(ln.result.shares) |->
                                      <<"", Str(ln.result.shares[i].name),
                                        ln.result.shares[i].permissions>>]]>>]
  ELSE [shown |-> <<StatusEvent(Payload(WireLine(ln)))>>, scan_model |-> <<>>]

\* C39: RESULT and STATUS round-trip. When a line the scanner printed has been read,
\* the tab has decoded a result with the same host and the same (share name,
\* permissions) pairs, or displays exactly the text after the STATUS: prefix, also
\* when the payload contains the text RESULT: or STATUS:.
C39_RoundTrip ==
  delivered = Len(stream) =>
    \A ln \in EmittedLines :
      stream = WireLine(ln) =>
        /\ shown = Decoded(ln).shown
        /\ scan_model = Decoded(ln).scan_model

\* the round trip of the lines whose payload holds no tag
C39_RoundTripUntagged ==
  delivered = Len(stream) =>
    \A ln \in EmittedLines :
      (stream = WireLine(ln) /\ FindStr(Payload(stream), "RESULT:") = 0
         /\ FindStr(Payload(stream), "STATUS:") = 0) =>
        /\ shown = Decoded(ln).shown
        /\ scan_model = Decoded(ln).scan_model

(* ======================================================================= *)
(* One scanner process                                                     *)
(* ======================================================================= *)
\* start_scan has gone past its guard: the results view is cleared and a new QProcess
\* takes the place of the one recorded
ScanStarted == nscan' = nscan + 1

\* C40: at most one scanner process. Whatever the order of start_scan, stop_scan and
\* the signals of the process, start_scan goes past its guard only when no scanner
\* process is alive: while one is, it starts nothing and leaves the results view alone.
C40_OneScannerProcess ==
  [][/\ ScanStarted => ~Alive
     /\ (Alive /\ ~ScanStarted) =>
          \A r \in 1 .. Len(scan_model) :
            r <= Len(scan_model') /\ scan_model'[r].host = scan_model[r].host]_vars

====
